---- MODULE Spec2Model ----
(***************************************************************************)
(* Model of agent-align's synchronization engine:                          *)
(*   internal/syncer/syncer.go      (Syncer.Sync, formatConfig, the JSON   *)
(*                                   and TOML writers, the Codex merge)    *)
(*   internal/transforms/transforms.go (the per-agent transformers)        *)
(*                                                                         *)
(* Text is modelled as a sequence of tokens.  A token is either one of the *)
(* special characters the code looks at (newline, carriage return, space,  *)
(* brackets, quote, comma, equals, hash) or a word that contains none of   *)
(* them.  A Go string is a sequence of tokens; a file is a Go string.      *)
(* A Go map is a TLA+ function; a Go map object that is shared by          *)
(* reference lives in the heap.                                            *)
(***************************************************************************)
EXTENDS Integers, Sequences, FiniteSets, TLC

VARIABLES
    pc,         \* position inside Syncer.Sync
    tmpl,       \* the Template argument of Sync: [name, payload]
    source,     \* s.SourceAgent
    agents,     \* s.Agents
    idx,        \* index of the range loop over s.Agents (1-based)
    heap,       \* the Go map objects holding server models, by reference
    serversRef, \* `servers` of Sync: a reference into heap (0: not parsed)
    agentRef,   \* `agentServers` of Sync: a reference into heap (0: none)
    servers0,   \* history: the value of `servers` right after parsing
    todo,       \* CopilotTransformer.Transform: names its range loop has not visited
    terr,       \* the error transformer.Transform returned
    result,     \* `result` of Sync: agent -> rendered content
    files,      \* destination files on disk, by agent: content or absent
    ret         \* what Sync returned: [done, err, agents, servers]

vars == <<pc, tmpl, source, agents, idx, heap, serversRef, agentRef, servers0,
          todo, terr, result, files, ret>>

-----------------------------------------------------------------------------
(* Bounds of the model.                                                    *)

\* longest list of agents handed to New
MaxAgents == 2
\* most servers in a model handed to a transformer on its own
MaxServers == 2

-----------------------------------------------------------------------------
(* Strings: sequences of tokens.                                           *)

NL == "\n"
CR == "\r"
SP == " "
QUOTE == "\""

\* unicode.IsSpace on the tokens of the model
IsSpace(tok) == tok \in {SP, CR, NL, "\t"}

\* strings.ToLower on one token
LowerTok(tok) ==
    CASE tok = "STDIO" -> "stdio"
      [] tok = "LOCAL" -> "local"
      [] tok = "HTTP" -> "http"
      [] tok = "Streamable-HTTP" -> "streamable-http"
      [] tok = "Copilot" -> "copilot"
      [] tok = "Codex" -> "codex"
      [] tok = "VSCode" -> "vscode"
      [] tok = "Gemini" -> "gemini"
      [] tok = "ClaudeCode" -> "claudecode"
      [] OTHER -> tok

ToLower(s) == [i \in 1..Len(s) |-> LowerTok(s[i])]

RECURSIVE TrimLeftSpace(_)
TrimLeftSpace(s) ==
    IF s # <<>> /\ IsSpace(Head(s)) THEN TrimLeftSpace(Tail(s)) ELSE s

RECURSIVE TrimRightSet(_, _)
\* strings.TrimRight(s, cutset)
TrimRightSet(s, cutset) ==
    IF s # <<>> /\ s[Len(s)] \in cutset
    THEN TrimRightSet(SubSeq(s, 1, Len(s) - 1), cutset)
    ELSE s

\* strings.TrimSpace
TrimSpace(s) == TrimRightSet(TrimLeftSpace(s), {SP, CR, NL, "\t"})

HasPrefix(s, p) == Len(s) >= Len(p) /\ SubSeq(s, 1, Len(p)) = p
HasSuffix(s, p) == Len(s) >= Len(p) /\ SubSeq(s, Len(s) - Len(p) + 1, Len(s)) = p

\* strings.EqualFold
EqualFold(s, t) == ToLower(s) = ToLower(t)

\* a word as a string
W(word) == <<word>>

-----------------------------------------------------------------------------
(* Values of a server definition (interface{} holding what encoding/json   *)
(* produces, plus the []string that parseTOMLArray produces).              *)

NoMap == <<>>

Str(s)  == [k |-> "str",  s |-> s, q |-> <<>>, m |-> NoMap]
Bool(b) == [k |-> "bool", s |-> W(IF b THEN "true" ELSE "false"), q |-> <<>>, m |-> NoMap]
Arr(q)  == [k |-> "seq",  s |-> <<>>, q |-> q, m |-> NoMap]
Strs(q) == [k |-> "strs", s |-> <<>>, q |-> q, m |-> NoMap]
NilStrs == [k |-> "nilstrs", s |-> <<>>, q |-> <<>>, m |-> NoMap]
Null    == [k |-> "null", s |-> <<>>, q |-> <<>>, m |-> NoMap]
Obj(m)  == [k |-> "map",  s |-> <<>>, q |-> <<>>, m |-> m]

\* an entry of the servers map: a mapping, or something else ("oops")
MapEntry(def) == [isMap |-> TRUE, def |-> def]
NonMapEntry == [isMap |-> FALSE, def |-> <<>>]

Has(f, key) == key \in DOMAIN f
Put(f, key, v) == [x \in DOMAIN f \cup {key} |-> IF x = key THEN v ELSE f[x]]
Delete(f, key) == [x \in DOMAIN f \ {key} |-> f[x]]

-----------------------------------------------------------------------------
(* internal/transforms/transforms.go                                       *)

NoErr == [isErr |-> FALSE, server |-> <<>>, missing |-> <<>>]
ValidationErr(name, missing) == [isErr |-> TRUE, server |-> name, missing |-> missing]

\* addToolsArrayIfMissing with the presence test dropped (mutant)
addToolsArrayAlways(server) == Put(server, "tools", Arr(<<>>))

addToolsArrayIfMissing(server) ==
    IF ~Has(server, "tools") THEN Put(server, "tools", Arr(<<>>)) ELSE server

\* normalizeType without the streamable-http case (mutant)
normalizeTypeStdioOnly(server) ==
    IF Has(server, "type") /\ server["type"].k = "str"
       /\ ToLower(TrimSpace(server["type"].s)) = W("stdio")
    THEN Put(server, "type", Str(W("local")))
    ELSE server

\* the switch on the type string in CopilotTransformer.transformServer
normalizeType(server) ==
    IF Has(server, "type") /\ server["type"].k = "str"
    THEN LET typ == ToLower(TrimSpace(server["type"].s)) IN
         CASE typ = W("stdio") -> Put(server, "type", Str(W("local")))
           [] typ = W("streamable-http") -> Put(server, "type", Str(W("http")))
           [] OTHER -> server
    ELSE server

isNetworkServer(server) == Has(server, "type") \/ Has(server, "url")

missingFields(server) ==
    (IF ~Has(server, "type") THEN <<"type">> ELSE <<>>)
        \o (IF ~Has(server, "url") THEN <<"url">> ELSE <<>>)

\* validateNetworkServer without the exemption of local transports (mutant)
validateNetworkServerNoLocal(name, server) ==
    IF ~Has(server, "type") /\ ~Has(server, "url") THEN NoErr
    ELSE IF Len(missingFields(server)) > 0
         THEN ValidationErr(name, missingFields(server))
         ELSE NoErr

validateNetworkServer(name, server) ==
    IF ~Has(server, "type") /\ ~Has(server, "url") THEN NoErr
    ELSE IF Has(server, "type") /\ server["type"].k = "str"
            /\ EqualFold(TrimSpace(server["type"].s), W("local"))
         THEN NoErr
    ELSE IF Len(missingFields(server)) > 0
         THEN ValidationErr(name, missingFields(server))
         ELSE NoErr

\* CopilotTransformer.transformServer: the server as mutated, and the error
transformServer(name, server) ==
    LET s1 == addToolsArrayIfMissing(server)
        s2 == normalizeType(s1)
    IN  [server |-> s2,
         err |-> IF isNetworkServer(s2) THEN validateNetworkServer(name, s2) ELSE NoErr]

\* claudeServer comparing the type as written, without ToLower and TrimSpace
\* (mutant)
claudeServerExact(entry) ==
    IF ~entry.isMap THEN entry
    ELSE LET server == entry.def IN
         IF Has(server, "type") /\ server["type"].k = "str"
            /\ server["type"].s = W("streamable-http")
         THEN MapEntry(Put(server, "type", Str(W("http"))))
         ELSE entry

\* the range loop of ClaudeTransformer.Transform, one server
claudeServer(entry) ==
    IF ~entry.isMap THEN entry
    ELSE LET server == entry.def IN
         IF Has(server, "type") /\ server["type"].k = "str"
            /\ ToLower(TrimSpace(server["type"].s)) = W("streamable-http")
         THEN MapEntry(Put(server, "type", Str(W("http"))))
         ELSE entry

\* ClaudeTransformer.Transform
ClaudeTransform(servers) == [n \in DOMAIN servers |-> claudeServer(servers[n])]

\* geminiServer without delete(server, "gallery") (mutant)
geminiServerKeepsGallery(entry) ==
    IF ~entry.isMap THEN entry
    ELSE MapEntry(Delete(Delete(Delete(entry.def,
             "autoApprove"), "disabled"), "type"))

\* the range loop of GeminiTransformer.Transform, one server
geminiServer(entry) ==
    IF ~entry.isMap THEN entry
    ELSE MapEntry(Delete(Delete(Delete(Delete(entry.def,
             "autoApprove"), "disabled"), "gallery"), "type"))

\* GeminiTransformer.Transform dropping the servers that are not mappings
GeminiTransformDropping(servers) ==
    [n \in {x \in DOMAIN servers : servers[x].isMap} |-> geminiServer(servers[n])]

\* GeminiTransformer.Transform
GeminiTransform(servers) == [n \in DOMAIN servers |-> geminiServer(servers[n])]

GithubName == W("github")
CodexTokenEnvVar == W("CODEX_GITHUB_PERSONAL_ACCESS_TOKEN")

\* stripAuthorization without the removal of an emptied headers (mutant)
stripAuthorizationKeepsEmpty(server) ==
    Put(server, "headers", Obj(Delete(server["headers"].m, "Authorization")))

\* delete(headers, "Authorization"); if len(headers) == 0 { delete(server, "headers") }
stripAuthorization(server) ==
    LET headers == Delete(server["headers"].m, "Authorization") IN
    IF DOMAIN headers = {} THEN Delete(server, "headers")
    ELSE Put(server, "headers", Obj(headers))

\* CodexTransformer.Transform setting bearer_token_env_var whether or not the
\* server has one
CodexTransformOverwriting(servers) ==
    IF ~Has(servers, GithubName) THEN servers
    ELSE IF ~servers[GithubName].isMap THEN servers
    ELSE LET server == servers[GithubName].def IN
         IF ~(Has(server, "headers") /\ server["headers"].k = "map") THEN servers
         ELSE IF ~Has(server["headers"].m, "Authorization") THEN servers
         ELSE Put(servers, GithubName,
                  MapEntry(stripAuthorization(
                      Put(server, "bearer_token_env_var", Str(CodexTokenEnvVar)))))

\* CodexTransformer.Transform without the test for an Authorization header
\* (mutant)
CodexTransformNoAuthTest(servers) ==
    IF ~Has(servers, GithubName) THEN servers
    ELSE IF ~servers[GithubName].isMap THEN servers
    ELSE LET server == servers[GithubName].def IN
         IF ~(Has(server, "headers") /\ server["headers"].k = "map") THEN servers
         ELSE IF Has(server, "bearer_token_env_var")
              THEN Put(servers, GithubName, MapEntry(stripAuthorization(server)))
         ELSE Put(servers, GithubName,
                  MapEntry(stripAuthorization(
                      Put(server, "bearer_token_env_var", Str(CodexTokenEnvVar)))))

\* CodexTransformer.Transform
CodexTransform(servers) ==
    IF ~Has(servers, GithubName) THEN servers
    ELSE IF ~servers[GithubName].isMap THEN servers
    ELSE LET server == servers[GithubName].def IN
         IF ~(Has(server, "headers") /\ server["headers"].k = "map") THEN servers
         ELSE IF Has(server, "bearer_token_env_var")
              THEN Put(servers, GithubName, MapEntry(stripAuthorization(server)))
         ELSE IF ~Has(server["headers"].m, "Authorization") THEN servers
         ELSE Put(servers, GithubName,
                  MapEntry(stripAuthorization(
                      Put(server, "bearer_token_env_var", Str(CodexTokenEnvVar)))))

\* NoOpTransformer.Transform
NoOpTransform(servers) == servers

\* GetTransformer lower-casing the name without trimming it
GetTransformerUntrimmed(agent) ==
    LET a == ToLower(agent) IN
    CASE a = W("copilot") -> "copilot"
      [] a = W("claudecode") -> "claude"
      [] a = W("codex") -> "codex"
      [] a = W("gemini") -> "gemini"
      [] OTHER -> "noop"

\* GetTransformer: the name of the transformer chosen for an agent
GetTransformer(agent) ==
    LET a == ToLower(TrimSpace(agent)) IN
    CASE a = W("copilot") -> "copilot"
      [] a = W("claudecode") -> "claude"
      [] a = W("codex") -> "codex"
      [] a = W("gemini") -> "gemini"
      [] OTHER -> "noop"

\* Transform of the transformers whose result does not depend on map order
TransformWhole(kind, servers) ==
    CASE kind = "claude" -> ClaudeTransform(servers)
      [] kind = "codex" -> CodexTransform(servers)
      [] kind = "gemini" -> GeminiTransform(servers)
      [] OTHER -> NoOpTransform(servers)

-----------------------------------------------------------------------------
(* internal/syncer/syncer.go: the catalog                                  *)

normalizeAgent(agent) == ToLower(TrimSpace(agent))

NoConfig == [ok |-> FALSE, NodeName |-> "", Format |-> ""]
AgentConfig(node, format) == [ok |-> TRUE, NodeName |-> node, Format |-> format]

\* GetAgentConfig matching the name as written
GetAgentConfigAsWritten(agent) ==
    CASE agent = W("copilot") -> AgentConfig("mcpServers", "json")
      [] agent = W("vscode") -> AgentConfig("servers", "json")
      [] agent = W("codex") -> AgentConfig("", "toml")
      [] agent = W("claudecode") -> AgentConfig("mcpServers", "json")
      [] agent = W("gemini") -> AgentConfig("mcpServers", "json")
      [] OTHER -> NoConfig

\* GetAgentConfig (the home directory is taken to exist)
GetAgentConfig(agent) ==
    LET a == normalizeAgent(agent) IN
    CASE a = W("copilot") -> AgentConfig("mcpServers", "json")
      [] a = W("vscode") -> AgentConfig("servers", "json")
      [] a = W("codex") -> AgentConfig("", "toml")
      [] a = W("claudecode") -> AgentConfig("mcpServers", "json")
      [] a = W("gemini") -> AgentConfig("mcpServers", "json")
      [] OTHER -> NoConfig

SupportedAgents ==
    <<W("copilot"), W("vscode"), W("codex"), W("claudecode"), W("gemini")>>

RECURSIVE uniqueFrom(_, _, _)
uniqueFrom(list, seen, out) ==
    IF list = <<>> THEN out
    ELSE LET normalized == normalizeAgent(Head(list)) IN
         IF normalized = <<>> \/ normalized \in seen
         THEN uniqueFrom(Tail(list), seen, out)
         ELSE uniqueFrom(Tail(list), seen \cup {normalized}, Append(out, normalized))

\* uniqueAgents
uniqueAgents(list) == uniqueFrom(list, {}, <<>>)

-----------------------------------------------------------------------------
(* encoding/json as the code uses it                                       *)

\* json.Unmarshal(json.Marshal(v)) on one value
jsonValue(v) ==
    CASE v.k = "strs" -> Arr(v.q)
      [] v.k = "nilstrs" -> Null
      [] v.k = "map" -> Obj([h \in DOMAIN v.m |-> v.m[h]])
      [] OTHER -> v

jsonEntry(entry) ==
    IF entry.isMap
    THEN MapEntry([a \in DOMAIN entry.def |-> jsonValue(entry.def[a])])
    ELSE entry

\* json.Unmarshal(json.Marshal(servers)): a fresh map with the same JSON
jsonRoundTrip(servers) == [n \in DOMAIN servers |-> jsonEntry(servers[n])]

\* deepCopyServers returning its argument instead of a copy (mutant)
deepCopyServersShared(h, ref) == [heap |-> h, ref |-> ref]

\* deepCopyServers: the heap with the copy added, and the copy's reference
deepCopyServers(h, ref) ==
    [heap |-> Append(h, jsonRoundTrip(h[ref])), ref |-> Len(h) + 1]

\* a top-level value of a JSON document
ObjVal(servers) == [isObj |-> TRUE, servers |-> servers, v |-> Null]
ScalarVal(v) == [isObj |-> FALSE, servers |-> <<>>, v |-> v]

\* a rendered content: JSON text (held as the document it encodes) or plain text
JSONContent(doc) == [json |-> TRUE, doc |-> doc, text |-> <<>>]
TextContent(text) == [json |-> FALSE, doc |-> <<>>, text |-> text]
EmptyString == TextContent(<<>>)

\* parseServersFromJSON, on a payload that json.Unmarshal accepted as `data`
parseServersFromJSON(nodeName, data) ==
    IF Has(data, nodeName) /\ data[nodeName].isObj
    THEN data[nodeName].servers
    ELSE <<>>

\* formatToJSON writing under "mcpServers" whatever nodeName is (mutant)
formatToJSONFixedKey(nodeName, servers) ==
    JSONContent([key \in {"mcpServers"} |-> ObjVal(jsonRoundTrip(servers))])

\* formatToJSON (nodeName is never empty for a JSON agent of the catalog)
formatToJSON(nodeName, servers) ==
    JSONContent([key \in {nodeName} |-> ObjVal(jsonRoundTrip(servers))])

-----------------------------------------------------------------------------
(* Text helpers of package strings, on token sequences                     *)

RECURSIVE SplitFrom(_, _, _)
SplitFrom(s, cur, out) ==
    IF s = <<>> THEN Append(out, cur)
    ELSE IF Head(s) = NL THEN SplitFrom(Tail(s), <<>>, Append(out, cur))
    ELSE SplitFrom(Tail(s), Append(cur, Head(s)), out)

\* strings.Split(s, "\n"): never empty, "" splits into one empty line
SplitLines(s) == SplitFrom(s, <<>>, <<>>)

RECURSIVE Join(_, _)
\* strings.Join(parts, sep)
Join(parts, sep) ==
    IF parts = <<>> THEN <<>>
    ELSE IF Len(parts) = 1 THEN parts[1]
    ELSE parts[1] \o sep \o Join(Tail(parts), sep)

\* the server names and the attribute names of the model, in the order of
\* sort.Strings (byte order)
SortedNames == <<W("a"), W("b"), W("c"), W("github"), W("new"), W("old")>>
SortedKeys == <<"args", "autoApprove", "bearer_token_env_var", "command",
                "disabled", "gallery", "headers", "tools", "type", "url">>

\* sort.Strings on the keys of a map
SortStrings(keys, universe) == SelectSeq(universe, LAMBDA x : x \in keys)

MCPPrefix == <<"[", "mcp_servers", ".">>

-----------------------------------------------------------------------------
(* internal/syncer/syncer.go: the TOML writer and the Codex merge          *)

RECURSIVE quotedItems(_)
\* fmt.Sprintf("\"%s\"", s) for every item
quotedItems(q) ==
    IF q = <<>> THEN <<>>
    ELSE <<(<<QUOTE>> \o Head(q) \o <<QUOTE>>)>> \o quotedItems(Tail(q))

RECURSIVE goMapText(_, _)
\* fmt's %v of a map[string]interface{} of strings: key:value pairs in key order
goMapText(m, keys) ==
    IF keys = <<>> THEN <<>>
    ELSE <<Head(keys), ":">> \o m[Head(keys)].s
         \o (IF Len(keys) > 1 THEN <<SP>> ELSE <<>>) \o goMapText(m, Tail(keys))

\* tomlValue with a nil []string left to the default case (mutant)
tomlValueNilDefault(v) ==
    CASE v.k = "str" -> <<QUOTE>> \o v.s \o <<QUOTE>>
      [] v.k \in {"seq", "strs"} ->
            <<"[">> \o Join(quotedItems(v.q), <<",", SP>>) \o <<"]">>
      [] v.k = "bool" -> v.s
      [] OTHER -> W("<nil>")

\* the text after "key = " for one value (the type switch of formatToTOML)
tomlValue(v) ==
    CASE v.k = "str" -> <<QUOTE>> \o v.s \o <<QUOTE>>
      [] v.k \in {"seq", "strs", "nilstrs"} ->
            <<"[">> \o Join(quotedItems(v.q), <<",", SP>>) \o <<"]">>
      [] v.k = "bool" -> v.s
      [] v.k = "null" -> W("<nil>")
      [] OTHER -> <<"map", "[">>
                  \o goMapText(v.m, SortStrings(DOMAIN v.m, <<"Authorization", "X-Other">>))
                  \o <<"]">>

RECURSIVE tomlKeys(_, _)
tomlKeys(serverData, keys) ==
    IF keys = <<>> THEN <<>>
    ELSE <<Head(keys), SP, "=", SP>> \o tomlValue(serverData[Head(keys)]) \o <<NL>>
         \o tomlKeys(serverData, Tail(keys))

RECURSIVE tomlServers(_, _)
tomlServers(servers, names) ==
    IF names = <<>> THEN <<>>
    ELSE (IF servers[Head(names)].isMap
          THEN MCPPrefix \o Head(names) \o <<"]", NL>>
               \o tomlKeys(servers[Head(names)].def,
                           SortStrings(DOMAIN servers[Head(names)].def, SortedKeys))
               \o <<NL>>
          ELSE <<>>)
         \o tomlServers(servers, Tail(names))

\* formatToTOML writing the servers in descending order of their names
formatToTOMLDescending(servers) ==
    LET names == SortStrings(DOMAIN servers, SortedNames) IN
    TrimRightSet(tomlServers(servers,
                     [i \in 1..Len(names) |-> names[Len(names) + 1 - i]]), {NL})

\* formatToTOML
formatToTOML(servers) ==
    TrimRightSet(tomlServers(servers, SortStrings(DOMAIN servers, SortedNames)), {NL})

isSectionHeader(trimmed) == HasPrefix(trimmed, <<"[">>) /\ HasSuffix(trimmed, <<"]">>)

RECURSIVE stripLinesHeadersOnly(_, _, _, _)
\* stripLines that drops the header of a managed section and keeps its body
\* (mutant)
stripLinesHeadersOnly(lines, i, insideMCP, sb) ==
    IF i > Len(lines) THEN sb
    ELSE LET line == lines[i]
             trimmed == TrimSpace(line)
         IN  IF isSectionHeader(trimmed) /\ HasPrefix(trimmed, MCPPrefix)
             THEN stripLinesHeadersOnly(lines, i + 1, FALSE, sb)
             ELSE stripLinesHeadersOnly(lines, i + 1, FALSE,
                             sb \o line \o (IF i < Len(lines) THEN <<NL>> ELSE <<>>))

RECURSIVE stripLines(_, _, _, _)
\* the loop of stripMCPServersSections from line i on
stripLines(lines, i, insideMCP, sb) ==
    IF i > Len(lines) THEN sb
    ELSE LET line == lines[i]
             trimmed == TrimSpace(line)
             header == isSectionHeader(trimmed)
             inside == IF header THEN HasPrefix(trimmed, MCPPrefix) ELSE insideMCP
         IN  IF inside THEN stripLines(lines, i + 1, inside, sb)
             ELSE stripLines(lines, i + 1, inside,
                             sb \o line \o (IF i < Len(lines) THEN <<NL>> ELSE <<>>))

\* stripMCPServersSections that drops comment lines as well (mutant)
stripMCPServersSectionsNoComments(content) ==
    IF TrimSpace(content) = <<>> THEN <<>>
    ELSE stripLines(SelectSeq(SplitLines(content),
                              LAMBDA l : ~HasPrefix(TrimSpace(l), <<"#">>)),
                    1, FALSE, <<>>)

\* stripMCPServersSections
stripMCPServersSections(content) ==
    IF TrimSpace(content) = <<>> THEN <<>>
    ELSE stripLines(SplitLines(content), 1, FALSE, <<>>)

RECURSIVE IndexOf(_, _, _)
\* the place of the first tok of s at or after i, 0 when there is none
IndexOf(s, tok, i) ==
    IF i > Len(s) THEN 0
    ELSE IF s[i] = tok THEN i
    ELSE IndexOf(s, tok, i + 1)

RECURSIVE TrimLeftSet(_, _)
TrimLeftSet(s, cutset) ==
    IF s # <<>> /\ Head(s) \in cutset THEN TrimLeftSet(Tail(s), cutset) ELSE s

\* strings.Trim(s, cutset)
TrimSet(s, cutset) == TrimRightSet(TrimLeftSet(s, cutset), cutset)

RECURSIVE arrayItems(_, _, _, _)
\* the loop of parseTOMLArray over the rest of value
arrayItems(value, inQuotes, current, out) ==
    IF value = <<>> THEN out
    ELSE LET ch == Head(value) IN
         IF ch = QUOTE /\ ~inQuotes
         THEN arrayItems(Tail(value), TRUE, current, out)
         ELSE IF ch = QUOTE
         THEN arrayItems(Tail(value), FALSE, <<>>, Append(out, current))
         ELSE IF ch = "," /\ ~inQuotes
         THEN arrayItems(Tail(value), inQuotes, current, out)
         ELSE IF inQuotes
         THEN arrayItems(Tail(value), TRUE, Append(current, ch), out)
         ELSE arrayItems(Tail(value), FALSE, current, out)

\* parseTOMLArray: a []string, nil when nothing was appended
parseTOMLArray(value) ==
    LET v1 == IF HasPrefix(value, <<"[">>) THEN Tail(value) ELSE value
        v2 == IF HasSuffix(v1, <<"]">>) THEN SubSeq(v1, 1, Len(v1) - 1) ELSE v1
        v3 == TrimSpace(v2)
        items == arrayItems(v3, FALSE, <<>>, <<>>)
    IN  IF v3 = <<>> \/ items = <<>> THEN NilStrs ELSE Strs(items)

\* what parseServersFromTOML stores for the text after "="
tomlParsedValue(value) ==
    IF HasPrefix(value, <<QUOTE>>) /\ HasSuffix(value, <<QUOTE>>)
    THEN Str(TrimSet(value, {QUOTE}))
    ELSE IF HasPrefix(value, <<"[">>) THEN parseTOMLArray(value)
    ELSE Str(value)

\* the key before "=": the attribute names of the model are single words
tomlParsedKey(key) == IF key = <<>> THEN "" ELSE key[1]

\* servers[currentServer] = serverData, when a server is open
storeServer(servers, currentServer, serverData) ==
    IF currentServer # <<>>
    THEN Put(servers, currentServer, MapEntry(serverData))
    ELSE servers

RECURSIVE parseLines(_, _, _, _, _)
\* the loop of parseServersFromTOML from line i on, and its final store
parseLines(lines, i, servers, currentServer, serverData) ==
    IF i > Len(lines) THEN storeServer(servers, currentServer, serverData)
    ELSE LET line == TrimSpace(lines[i])
             eq == IndexOf(line, "=", 1)
         IN
         IF line = <<>> \/ HasPrefix(line, <<"#">>)
         THEN parseLines(lines, i + 1, servers, currentServer, serverData)
         ELSE IF HasPrefix(line, MCPPrefix) /\ HasSuffix(line, <<"]">>)
         THEN parseLines(lines, i + 1,
                         storeServer(servers, currentServer, serverData),
                         SubSeq(line, Len(MCPPrefix) + 1, Len(line) - 1), NoMap)
         ELSE IF currentServer # <<>> /\ eq > 0
         THEN parseLines(lines, i + 1, servers, currentServer,
                         Put(serverData,
                             tomlParsedKey(TrimSpace(SubSeq(line, 1, eq - 1))),
                             tomlParsedValue(TrimSpace(SubSeq(line, eq + 1, Len(line))))))
         ELSE parseLines(lines, i + 1, servers, currentServer, serverData)

\* parseServersFromTOML (it never fails)
parseServersFromTOML(payload) ==
    parseLines(SplitLines(payload), 1, <<>>, <<>>, NoMap)

\* parseServersFromSource, for a source of the catalog and a payload whose
\* JSON, if it is JSON, parses
parseServersFromSource(src, payload) ==
    IF GetAgentConfig(src).Format = "toml"
    THEN parseServersFromTOML(payload.raw)
    ELSE parseServersFromJSON(GetAgentConfig(src).NodeName, payload.data)

\* a file on disk: absent, JSON (held as its document) or text
AbsentFile == [exists |-> FALSE, json |-> FALSE, doc |-> <<>>, text |-> <<>>]
JSONFile(doc) == [exists |-> TRUE, json |-> TRUE, doc |-> doc, text |-> <<>>]
TextFile(text) == [exists |-> TRUE, json |-> FALSE, doc |-> <<>>, text |-> text]

\* formatCodexConfig without strings.TrimRight on the preserved text (mutant)
formatCodexConfigNoTrim(file, servers) ==
    LET existing == IF file.exists THEN file.text ELSE <<>>
        preserved == stripMCPServersSections(existing)
        newSections == TrimRightSet(formatToTOML(servers), {CR, NL})
        parts == (IF preserved # <<>> THEN <<preserved>> ELSE <<>>)
                     \o (IF newSections # <<>> THEN <<newSections>> ELSE <<>>)
    IN  IF Len(parts) = 0 THEN EmptyString
        ELSE TextContent(Join(parts, <<NL, NL>>) \o <<NL>>)

\* formatCodexConfig; file is what os.ReadFile(cfg.FilePath) finds
formatCodexConfig(file, servers) ==
    LET existing == IF file.exists THEN file.text ELSE <<>>
        preserved == TrimRightSet(stripMCPServersSections(existing), {CR, NL})
        newSections == TrimRightSet(formatToTOML(servers), {CR, NL})
        parts == (IF preserved # <<>> THEN <<preserved>> ELSE <<>>)
                     \o (IF newSections # <<>> THEN <<newSections>> ELSE <<>>)
    IN  IF Len(parts) = 0 THEN EmptyString
        ELSE TextContent(Join(parts, <<NL, NL>>) \o <<NL>>)

\* formatConfig; file is the file at the agent's path
formatConfig(agent, file, servers) ==
    LET config == GetAgentConfig(agent) IN
    IF ~config.ok THEN EmptyString
    ELSE IF config.Format = "toml" THEN formatCodexConfig(file, servers)
    ELSE formatToJSON(config.NodeName, servers)

-----------------------------------------------------------------------------
(* Inputs of the model                                                     *)

\* server definitions handed to Sync
SyncDefs ==
    { [a \in {"type", "url", "headers"} |->
          CASE a = "type" -> Str(W("streamable-http"))
            [] a = "url" -> Str(W("https://example.test"))
            [] OTHER -> Obj([h \in {"Authorization"} |-> Str(W("Bearer"))])],
      [a \in {"command", "disabled", "type"} |->
          CASE a = "command" -> Str(W("npx"))
            [] a = "disabled" -> Bool(FALSE)
            [] OTHER -> Str(W("stdio"))],
      [a \in {"type"} |-> Str(W("http"))] }

SyncEntries == {MapEntry(d) : d \in SyncDefs} \cup {NonMapEntry}
SyncNames == {GithubName, W("a")}

\* every server model over a set of names and a set of entries
ModelsOver(names, entries) ==
    UNION {[S -> entries] : S \in SUBSET names}

SyncModels == ModelsOver(SyncNames, SyncEntries)

\* the payload of a template: its text when it matters (blank or not), whether
\* json.Unmarshal accepts it, and the document it then yields
Payload(raw, valid, data) == [raw |-> raw, valid |-> valid, data |-> data]

Payloads ==
    {Payload(<<SP, NL>>, FALSE, <<>>), Payload(W("{oops"), FALSE, <<>>)}
        \cup {Payload(W("{json}"), TRUE, [key \in {"mcpServers"} |-> ObjVal(m)])
                 : m \in SyncModels}

Templates == [name : {<<>>, W("t")}, payload : Payloads]

RawSources == {W("Copilot"), W("vscode"), W("unknown")}

RawAgents ==
    {W("copilot"), W("vscode"), W("codex"), W("claudecode"), W("gemini"),
     W("bogus"), <<SP, "Copilot">>, <<SP>>}

SeqsUpTo(S, n) == UNION {[1..k -> S] : k \in 0..n}

OldServers == [n \in {W("old")} |-> MapEntry([a \in {"command"} |-> Str(W("node"))])]

\* an existing JSON destination file with a setting of its own and old servers
ExistingDoc(nodeName) ==
    [key \in {"theme", nodeName} |->
        IF key = "theme" THEN ScalarVal(Str(W("dark"))) ELSE ObjVal(OldServers)]

\* an existing Codex file: a section of its own, then an old managed section
ExistingToml ==
    <<"[", "general", "]", NL, "theme", SP, "=", SP, QUOTE, "dark", QUOTE, NL, NL>>
        \o MCPPrefix \o <<"old", "]", NL, "command", SP, "=", SP, QUOTE, "node", QUOTE, NL>>

\* what may be on disk at an agent's path when Sync runs: nothing readable, or
\* an existing file (for a JSON agent: one that parses, or one that does not)
DiskFiles(agent) ==
    LET config == GetAgentConfig(agent) IN
    IF ~config.ok THEN {AbsentFile}
    ELSE IF config.Format = "toml" THEN {AbsentFile, TextFile(ExistingToml)}
    ELSE {AbsentFile, JSONFile(ExistingDoc(config.NodeName)), TextFile(W("{oops"))}

NoReturn == [done |-> FALSE, failed |-> FALSE, reason |-> "", verr |-> NoErr,
             agents |-> <<>>, servers |-> <<>>]
ReturnError(reason, verr) ==
    [done |-> TRUE, failed |-> TRUE, reason |-> reason, verr |-> verr,
     agents |-> <<>>, servers |-> <<>>]
ReturnResult(res, servers) ==
    [done |-> TRUE, failed |-> FALSE, reason |-> "", verr |-> NoErr,
     agents |-> res, servers |-> servers]

-----------------------------------------------------------------------------
(* Syncer.Sync as a state machine                                          *)

Agent == agents[idx]

\* New(sourceAgent, agents) has run; Sync has not started
Init ==
    /\ pc = "start"
    /\ tmpl \in Templates
    /\ source \in {normalizeAgent(r) : r \in RawSources}
    /\ agents \in {uniqueAgents(l) : l \in SeqsUpTo(RawAgents, MaxAgents)}
    /\ idx = 1
    /\ heap = <<>>
    /\ serversRef = 0
    /\ agentRef = 0
    /\ servers0 = <<>>
    /\ todo = {}
    /\ terr = NoErr
    /\ result = <<>>
    /\ files = <<>>
    /\ ret = NoReturn

\* the reason Sync gives up before its loop ("" when it does not)
startFailure ==
    IF TrimSpace(tmpl.name) = <<>> THEN "template requires a name"
    ELSE IF TrimSpace(tmpl.payload.raw) = <<>> THEN "template payload cannot be empty"
    ELSE IF ~GetAgentConfig(source).ok THEN "source agent not supported"
    ELSE IF GetAgentConfig(source).Format # "toml" /\ ~tmpl.payload.valid
         THEN "failed to parse JSON"
    ELSE ""

\* Sync up to its loop: the checks and parseServersFromSource
SyncStart ==
    /\ pc = "start"
    /\ IF startFailure # ""
       THEN /\ ret' = ReturnError(startFailure, NoErr)
            /\ pc' = "done"
            /\ UNCHANGED <<heap, serversRef, servers0>>
       ELSE LET servers == parseServersFromSource(source, tmpl.payload)
            IN  /\ heap' = <<servers>>
                /\ serversRef' = 1
                /\ servers0' = servers
                /\ pc' = "loop"
                /\ ret' = ret
    /\ UNCHANGED <<tmpl, source, agents, idx, agentRef, todo, terr, result, files>>

\* the loop taking the next agent on the copy made for the first one
CopyOnce ==
    /\ pc = "loop"
    /\ idx <= Len(agents)
    /\ LET c == IF agentRef = 0 THEN deepCopyServers(heap, serversRef)
                ELSE [heap |-> heap, ref |-> agentRef] IN
        /\ heap' = c.heap
        /\ agentRef' = c.ref
        /\ todo' = IF GetTransformer(Agent) = "copilot"
                   THEN DOMAIN c.heap[c.ref] ELSE {}
    /\ terr' = NoErr
    /\ pc' = "transform"
    /\ UNCHANGED <<tmpl, source, agents, idx, serversRef, servers0, result, files, ret>>

\* the loop takes the next agent: deepCopyServers, GetTransformer
Copy ==
    /\ pc = "loop"
    /\ idx <= Len(agents)
    /\ LET c == deepCopyServers(heap, serversRef) IN
        /\ heap' = c.heap
        /\ agentRef' = c.ref
        /\ todo' = IF GetTransformer(Agent) = "copilot"
                   THEN DOMAIN c.heap[c.ref] ELSE {}
    /\ terr' = NoErr
    /\ pc' = "transform"
    /\ UNCHANGED <<tmpl, source, agents, idx, serversRef, servers0, result, files, ret>>

\* one iteration of the range loop of CopilotTransformer.Transform; Go visits
\* the keys of a map in an order of its own choosing
CopilotVisit ==
    /\ pc = "transform"
    /\ GetTransformer(Agent) = "copilot"
    /\ ~terr.isErr
    /\ \E name \in todo :
        LET entry == heap[agentRef][name]
            r == transformServer(name, entry.def)
        IN  /\ todo' = todo \ {name}
            /\ IF entry.isMap
               THEN /\ heap' = [heap EXCEPT ![agentRef] = Put(@, name, MapEntry(r.server))]
                    /\ terr' = r.err
               ELSE UNCHANGED <<heap, terr>>
    /\ UNCHANGED <<pc, tmpl, source, agents, idx, serversRef, agentRef, servers0,
                   result, files, ret>>

\* CopilotTransformer.Transform returns; Sync returns its error, if any
CopilotReturn ==
    /\ pc = "transform"
    /\ GetTransformer(Agent) = "copilot"
    /\ terr.isErr \/ todo = {}
    /\ IF terr.isErr
       THEN /\ ret' = ReturnError("copilot validation error", terr)
            /\ pc' = "done"
       ELSE /\ pc' = "format"
            /\ ret' = ret
    /\ UNCHANGED <<tmpl, source, agents, idx, heap, serversRef, agentRef, servers0,
                   todo, terr, result, files>>

\* Transform of every other transformer (none of them fails)
TransformOther ==
    /\ pc = "transform"
    /\ GetTransformer(Agent) # "copilot"
    /\ heap' = [heap EXCEPT ![agentRef] = TransformWhole(GetTransformer(Agent), @)]
    /\ pc' = "format"
    /\ UNCHANGED <<tmpl, source, agents, idx, serversRef, agentRef, servers0,
                   todo, terr, result, files, ret>>

\* result[agent] = formatConfig(agent, agentServers); the file at the agent's
\* path is whatever the disk holds
Format ==
    /\ pc = "format"
    /\ \E file \in (IF Has(files, Agent) THEN {files[Agent]} ELSE DiskFiles(Agent)) :
        /\ files' = Put(files, Agent, file)
        /\ result' = Put(result, Agent, formatConfig(Agent, file, heap[agentRef]))
    /\ idx' = idx + 1
    /\ pc' = "loop"
    /\ UNCHANGED <<tmpl, source, agents, heap, serversRef, agentRef, servers0,
                   todo, terr, ret>>

\* return SyncResult{Agents: result, Servers: servers}, nil
Return ==
    /\ pc = "loop"
    /\ idx > Len(agents)
    /\ ret' = ReturnResult(result, heap[serversRef])
    /\ pc' = "done"
    /\ UNCHANGED <<tmpl, source, agents, idx, heap, serversRef, agentRef, servers0,
                   todo, terr, result, files>>

Next ==
    \/ SyncStart
    \/ Copy
    \/ CopilotVisit
    \/ CopilotReturn
    \/ TransformOther
    \/ Format
    \/ Return

Spec == Init /\ [][Next]_vars

-----------------------------------------------------------------------------
(* CopilotTransformer.Transform on its own, over a wider set of servers    *)

CopilotTypes ==
    {Str(W("stdio")), Str(W("STDIO")), Str(W("local")), Str(W("LOCAL")),
     Str(W("http")), Str(W("streamable-http")), Bool(TRUE)}

\* every definition made of a type (or none), a url (or none), tools (or none)
CopilotDefs ==
    { [a \in (IF hasType THEN {"type"} ELSE {})
             \cup (IF hasURL THEN {"url"} ELSE {})
             \cup (IF hasTools THEN {"tools"} ELSE {}) |->
          CASE a = "type" -> typ
            [] a = "url" -> Str(W("https://example.test"))
            [] OTHER -> Arr(<<W("kept")>>)]
      : typ \in CopilotTypes, hasType \in BOOLEAN, hasURL \in BOOLEAN,
        hasTools \in BOOLEAN }

CopilotEntries == {MapEntry(d) : d \in CopilotDefs} \cup {NonMapEntry}
CopilotNames == {W("a"), W("b"), W("c")}

CopilotModels ==
    UNION {[S -> CopilotEntries] :
              S \in {T \in SUBSET CopilotNames : Cardinality(T) <= MaxServers}}

\* Transform has just been called on a model
InitCopilot ==
    /\ pc = "transform"
    /\ tmpl = [name |-> W("t"), payload |-> Payload(W("{json}"), TRUE, <<>>)]
    /\ source = W("copilot")
    /\ agents = <<W("copilot")>>
    /\ idx = 1
    /\ servers0 \in CopilotModels
    /\ heap = <<servers0>>
    /\ serversRef = 0
    /\ agentRef = 1
    /\ todo = DOMAIN servers0
    /\ terr = NoErr
    /\ result = <<>>
    /\ files = <<>>
    /\ ret = NoReturn

SpecCopilot == InitCopilot /\ [][CopilotVisit]_vars

\* the model the transformer works on, and the servers its loop has visited
Current == heap[agentRef]
Visited == DOMAIN servers0 \ todo
TransformReturned == terr.isErr \/ todo = {}
TransformSucceeded == ~terr.isErr /\ todo = {}

-----------------------------------------------------------------------------
(* Claims about Syncer.Sync (specification Spec)                           *)

\* what a transformer makes of a model when every server is visited
TransformedAlone(agent, servers) ==
    IF GetTransformer(agent) = "copilot"
    THEN [n \in DOMAIN servers |->
             IF servers[n].isMap
             THEN MapEntry(transformServer(n, servers[n].def).server)
             ELSE servers[n]]
    ELSE TransformWhole(GetTransformer(agent), servers)

\* the content of a destination synced alone: a copy of the parsed model,
\* transformed for that destination only, rendered against the file on disk
RenderedAlone(agent) ==
    formatConfig(agent, files[agent], TransformedAlone(agent, jsonRoundTrip(servers0)))

\* C1: the content recorded for a destination is the content that destination
\* gets when it is synced alone, whatever was transformed before it
C1_Isolation ==
    \A a \in DOMAIN result : result[a] = RenderedAlone(a)

\* C1 witness: two destinations rendered, the first one's transform having
\* changed its copy of the model
C1_Witness ==
    /\ ret.done /\ ~ret.failed
    /\ Len(agents) = 2
    /\ DOMAIN result = {agents[1], agents[2]}
    /\ TransformedAlone(agents[1], servers0) # servers0
    /\ TransformedAlone(agents[2], servers0) # TransformedAlone(agents[1], servers0)

\* a JSON destination whose file exists and parses as an object
MergesJSON(a) ==
    /\ GetAgentConfig(a).ok
    /\ GetAgentConfig(a).Format = "json"
    /\ files[a].exists /\ files[a].json

\* C3 (as claimed): the rendered document keeps every top-level key of the
\* existing file other than the root key, and holds the transformed model
\* under the root key
C3_Claim ==
    \A a \in DOMAIN result :
        MergesJSON(a) =>
            LET root == GetAgentConfig(a).NodeName IN
            /\ result[a].json
            /\ \A key \in DOMAIN files[a].doc \ {root} :
                  Has(result[a].doc, key) /\ result[a].doc[key] = files[a].doc[key]
            /\ Has(result[a].doc, root)
            /\ result[a].doc[root] = ObjVal(TransformedAlone(a, jsonRoundTrip(servers0)))

\* the parse succeeded and the loop was entered
Parsed == serversRef # 0

\* C4 (as claimed): a transform that fails does not fail Sync; every other
\* requested destination still gets its result
C4_Claim ==
    (ret.done /\ Parsed) =>
        /\ ~ret.failed
        /\ \A i \in 1..Len(agents) :
              (i # idx \/ ~terr.isErr) => Has(ret.agents, agents[i])

\* C5 (as claimed): nothing, not even empty content, is recorded for a
\* destination the catalog does not know
C5_Claim ==
    \A a \in DOMAIN result : GetAgentConfig(a).ok

\* C6 (as claimed): on a model with no entries Sync copies nothing, renders
\* nothing and returns an error
C6_Claim ==
    (Parsed /\ DOMAIN servers0 = {}) =>
        /\ agentRef = 0
        /\ result = <<>>
        /\ (ret.done => (ret.failed /\ ret.agents = <<>>))

\* C7: the model Sync returns is the model as it was parsed
C7_ReturnsUntransformed ==
    (ret.done /\ ~ret.failed) => ret.servers = servers0

\* C7 witness: Sync returned after some destination's transform changed that
\* destination's copy
C7_Witness ==
    /\ ret.done /\ ~ret.failed
    /\ \E r \in 1..Len(heap) : r # serversRef /\ heap[r] # servers0
    /\ ret.servers = servers0

-----------------------------------------------------------------------------
(* Claims about the Copilot transformer (specification SpecCopilot)        *)

IsStr(server, key, word) == Has(server, key) /\ server[key] = Str(W(word))

\* type normalization as the claims word it: the exact strings only
exactNormalized(server) ==
    IF IsStr(server, "type", "stdio") THEN Put(server, "type", Str(W("local")))
    ELSE IF IsStr(server, "type", "streamable-http") THEN Put(server, "type", Str(W("http")))
    ELSE server

\* a string type that reads as `word` once trimmed and lower-cased
ReadsAs(server, word) ==
    /\ Has(server, "type")
    /\ server["type"].k = "str"
    /\ ToLower(TrimSpace(server["type"].s)) = W(word)

foldNormalized(server) ==
    IF ReadsAs(server, "stdio") THEN Put(server, "type", Str(W("local")))
    ELSE IF ReadsAs(server, "streamable-http") THEN Put(server, "type", Str(W("http")))
    ELSE server

MissingOf(server) ==
    (IF Has(server, "type") THEN <<>> ELSE <<"type">>)
        \o (IF Has(server, "url") THEN <<>> ELSE <<"url">>)

\* a server that must be rejected, `type` compared exactly
ViolatesExact(entry) ==
    /\ entry.isMap
    /\ LET s == exactNormalized(entry.def) IN
        /\ Has(s, "type") \/ Has(s, "url")
        /\ ~IsStr(s, "type", "local")
        /\ MissingOf(s) # <<>>

\* a server that must be rejected, `type` compared without case and outer space
ViolatesFold(entry) ==
    /\ entry.isMap
    /\ LET s == foldNormalized(entry.def) IN
        /\ Has(s, "type") \/ Has(s, "url")
        /\ ~ReadsAs(s, "local")
        /\ MissingOf(s) # <<>>

\* C8 (as claimed): an error iff some server has type or url, its type is not
\* `local`, and type or url is absent
C8_Claim ==
    TransformReturned =>
        (terr.isErr <=> \E n \in DOMAIN servers0 : ViolatesExact(servers0[n]))

\* C8 (amended): the same with `local`, `stdio` and `streamable-http` read
\* without case and surrounding whitespace; the error names a violating server
\* and the fields it lacks, and no server is visited after the violation
C8_Validation ==
    TransformReturned =>
        /\ terr.isErr <=> \E n \in DOMAIN servers0 : ViolatesFold(servers0[n])
        /\ terr.isErr =>
            /\ terr.server \in Visited
            /\ ViolatesFold(servers0[terr.server])
            /\ terr.missing = MissingOf(servers0[terr.server].def)
            /\ \A n \in Visited \ {terr.server} : ~ViolatesFold(servers0[n])
            /\ \A n \in todo : Current[n] = servers0[n]

\* C8 witness: the transform stopped at a server of type http without url,
\* with another server not yet visited
C8_Witness ==
    /\ terr.isErr
    /\ IsStr(servers0[terr.server].def, "type", "http")
    /\ terr.missing = <<"url">>
    /\ todo # {}

\* C9: after a successful transform every mapping has tools: an empty
\* sequence where there was none, the old value where there was one
C9_Tools ==
    TransformSucceeded =>
        \A n \in DOMAIN servers0 :
            servers0[n].isMap =>
                /\ Current[n].isMap
                /\ Has(Current[n].def, "tools")
                /\ Current[n].def["tools"] =
                      (IF Has(servers0[n].def, "tools")
                       THEN servers0[n].def["tools"] ELSE Arr(<<>>))

\* C9 witness: a successful transform of one server with tools and one without
C9_Witness ==
    /\ TransformSucceeded
    /\ \E n, o \in DOMAIN servers0 :
        /\ servers0[n].isMap /\ servers0[o].isMap
        /\ Has(servers0[n].def, "tools")
        /\ ~Has(servers0[o].def, "tools")

\* C10 (as claimed): stdio becomes local, streamable-http becomes http, and
\* every other type value is left as it was
C10_Claim ==
    TransformSucceeded =>
        \A n \in DOMAIN servers0 :
            (servers0[n].isMap /\ Has(servers0[n].def, "type")) =>
                Current[n].def["type"] = exactNormalized(servers0[n].def)["type"]

\* C10 (amended): a type that reads stdio (streamable-http) once trimmed and
\* lower-cased becomes local (http); none is left afterwards; every other type
\* value, and the absence of a type, is left as it was
C10_TypeRenaming ==
    TransformSucceeded =>
        \A n \in DOMAIN servers0 :
            servers0[n].isMap =>
                /\ Has(Current[n].def, "type") <=> Has(servers0[n].def, "type")
                /\ Has(servers0[n].def, "type") =>
                      Current[n].def["type"] = foldNormalized(servers0[n].def)["type"]
                /\ ~ReadsAs(Current[n].def, "stdio")
                /\ ~ReadsAs(Current[n].def, "streamable-http")

\* C10 witness: a successful transform that renamed streamable-http and left
\* another type alone
C10_Witness ==
    /\ TransformSucceeded
    /\ \E n, o \in DOMAIN servers0 :
        /\ servers0[n].isMap /\ servers0[o].isMap
        /\ IsStr(servers0[n].def, "type", "streamable-http")
        /\ IsStr(Current[n].def, "type", "http")
        /\ IsStr(servers0[o].def, "type", "http")
        /\ IsStr(Current[o].def, "type", "http")

-----------------------------------------------------------------------------
(* formatCodexConfig on its own, over a wider set of existing files        *)

\* most lines in an existing Codex file
MaxLines == 3

CodexLines ==
    { <<>>,
      <<SP>>,
      <<"#", SP, "note">>,
      <<"[", "general", "]">>,
      <<"theme", SP, "=", SP, QUOTE, "dark", QUOTE>>,
      <<"font", SP, "=", SP, "12", CR>>,
      MCPPrefix \o <<"old", "]">>,
      <<SP>> \o MCPPrefix \o <<"old", "]", CR>> }

CodexTexts ==
    {Join(ls, <<NL>>) : ls \in UNION {[1..k -> CodexLines] : k \in 1..MaxLines}}

CodexFiles == {AbsentFile} \cup {TextFile(t) : t \in CodexTexts}

CodexServer ==
    [a \in {"command", "args"} |->
        IF a = "command" THEN Str(W("npx")) ELSE Arr(<<W("tool")>>)]

\* servers whose sequences are empty: a []interface{}, a []string, a nil []string
CodexEmptySequences ==
    { [a \in {"args", "command"} |->
          IF a = "command" THEN Str(W("npx")) ELSE Arr(<<>>)],
      [a \in {"args", "tools"} |->
          IF a = "args" THEN Strs(<<>>) ELSE NilStrs] }

CodexModels ==
    ModelsOver({W("new")},
               {MapEntry(d) : d \in {CodexServer} \cup CodexEmptySequences}
                   \cup {NonMapEntry})

\* formatConfig is about to be called for codex
InitCodex ==
    /\ pc = "format"
    /\ tmpl = [name |-> W("t"), payload |-> Payload(W("{json}"), TRUE, <<>>)]
    /\ source = W("copilot")
    /\ agents = <<W("codex")>>
    /\ idx = 1
    /\ servers0 \in CodexModels
    /\ heap = <<servers0>>
    /\ serversRef = 0
    /\ agentRef = 1
    /\ todo = {}
    /\ terr = NoErr
    /\ result = <<>>
    /\ files \in {[a \in {W("codex")} |-> f] : f \in CodexFiles}
    /\ ret = NoReturn

SpecCodex == InitCodex /\ [][Format]_vars

-----------------------------------------------------------------------------
(* Claims about the Codex merge (specification SpecCodex)                  *)

Codex == W("codex")
Merged == Has(result, Codex)
ExistingText == IF files[Codex].exists THEN files[Codex].text ELSE <<>>

\* a line that opens a section, and one that opens a managed section
OpensSection(line) ==
    LET t == TrimSpace(line) IN t # <<>> /\ Head(t) = "[" /\ t[Len(t)] = "]"
OpensManaged(line) ==
    OpensSection(line) /\ HasPrefix(TrimSpace(line), MCPPrefix)

\* whether line i lies in a managed section: the last section opened at or
\* before it is a managed one
InManaged(lines, i) ==
    \E j \in 1..i :
        /\ OpensManaged(lines[j])
        /\ \A h \in (j + 1)..i : ~(OpensSection(lines[h]) /\ ~OpensManaged(lines[h]))

RECURSIVE unmanagedFrom(_, _)
unmanagedFrom(lines, i) ==
    IF i > Len(lines) THEN <<>>
    ELSE (IF InManaged(lines, i) THEN <<>> ELSE <<lines[i]>>)
         \o unmanagedFrom(lines, i + 1)

\* the lines of a text that lie outside every managed section
UnmanagedLines(text) == unmanagedFrom(SplitLines(text), 1)

\* the lines of a file in the usual sense: no empty line after a final newline
FileLines(text) ==
    LET ls == SplitLines(text) IN
    IF ls[Len(ls)] = <<>> THEN SubSeq(ls, 1, Len(ls) - 1) ELSE ls

RECURSIVE IsSubsequence(_, _)
\* u can be had from o by leaving lines out
IsSubsequence(u, o) ==
    IF u = <<>> THEN TRUE
    ELSE IF o = <<>> THEN FALSE
    ELSE IF Head(u) = Head(o) THEN IsSubsequence(Tail(u), Tail(o))
    ELSE IsSubsequence(u, Tail(o))

IsPrefix(u, o) == Len(u) <= Len(o) /\ SubSeq(o, 1, Len(u)) = u

\* a line that holds nothing but carriage returns
OnlyCR(line) == \A i \in 1..Len(line) : line[i] = CR

RECURSIVE dropBlankTail(_)
dropBlankTail(lines) ==
    IF lines # <<>> /\ OnlyCR(lines[Len(lines)])
    THEN dropBlankTail(SubSeq(lines, 1, Len(lines) - 1))
    ELSE lines

\* the unmanaged lines that are kept: all of them up to the last one that
\* holds more than carriage returns, that one without its trailing carriage
\* returns; none of a file that holds only whitespace
KeptLines(text) ==
    LET u == dropBlankTail(UnmanagedLines(text)) IN
    IF u = <<>> \/ TrimSpace(text) = <<>> THEN <<>>
    ELSE [u EXCEPT ![Len(u)] = TrimRightSet(@, {CR})]

-----------------------------------------------------------------------------
(* The Codex, Claude and Gemini transformers on their own, over a wider    *)
(* set of servers                                                          *)

HeaderKinds == {"none", "auth", "authAndMore", "empty", "other", "string"}

\* the value of headers for each kind but "none"
HeadersOf(kind) ==
    CASE kind = "auth" -> Obj([h \in {"Authorization"} |-> Str(W("Bearer"))])
      [] kind = "authAndMore" ->
            Obj([h \in {"Authorization", "X-Other"} |-> Str(W("Bearer"))])
      [] kind = "empty" -> Obj(NoMap)
      [] kind = "other" -> Obj([h \in {"X-Other"} |-> Str(W("Bearer"))])
      [] OTHER -> Str(W("Bearer"))

TransformTypes ==
    {Str(W("streamable-http")), Str(<<SP, "Streamable-HTTP">>), Str(W("stdio")),
     Bool(TRUE)}

\* a command, and any of headers, bearer_token_env_var, type and the three
\* attributes Gemini rejects besides type
TransformDefs ==
    { [a \in {"command"}
             \cup (IF hk # "none" THEN {"headers"} ELSE {})
             \cup (IF hasEnv THEN {"bearer_token_env_var"} ELSE {})
             \cup (IF hasType THEN {"type"} ELSE {})
             \cup (IF extras THEN {"autoApprove", "disabled", "gallery"} ELSE {}) |->
          CASE a = "command" -> Str(W("npx"))
            [] a = "headers" -> HeadersOf(hk)
            [] a = "bearer_token_env_var" -> Str(W("MY_TOKEN"))
            [] a = "type" -> typ
            [] a = "autoApprove" -> Arr(<<>>)
            [] a = "disabled" -> Bool(FALSE)
            [] OTHER -> Bool(TRUE)]
      : hk \in HeaderKinds, hasEnv \in BOOLEAN, hasType \in BOOLEAN,
        typ \in TransformTypes, extras \in BOOLEAN }

TransformEntries == {MapEntry(d) : d \in TransformDefs} \cup {NonMapEntry}
TransformNames == {GithubName, W("a")}
TransformModels == ModelsOver(TransformNames, TransformEntries)

\* Sync is about to call Transform for codex, claudecode or gemini
InitTransform ==
    /\ pc = "transform"
    /\ tmpl = [name |-> W("t"), payload |-> Payload(W("{json}"), TRUE, <<>>)]
    /\ source = W("copilot")
    /\ agents \in {<<W("codex")>>, <<W("claudecode")>>, <<W("gemini")>>}
    /\ idx = 1
    /\ servers0 \in TransformModels
    /\ heap = <<servers0>>
    /\ serversRef = 0
    /\ agentRef = 1
    /\ todo = {}
    /\ terr = NoErr
    /\ result = <<>>
    /\ files = <<>>
    /\ ret = NoReturn

SpecTransform == InitTransform /\ [][TransformOther]_vars

-----------------------------------------------------------------------------
(* Claims about the Codex, Claude and Gemini transformers (specification   *)
(* SpecTransform)                                                          *)

\* Transform has returned for the named agent; the model before and after
Transformed(agent) == pc = "format" /\ Agent = W(agent)
Before == servers0
After == heap[agentRef]

\* a mapping-valued server whose headers is a mapping with an Authorization
CarriesAuthorization(entry) ==
    /\ entry.isMap
    /\ Has(entry.def, "headers")
    /\ entry.def["headers"].k = "map"
    /\ Has(entry.def["headers"].m, "Authorization")

\* headers and Authorization as C11 wants them after the transform
AuthorizationGone(old, new) ==
    /\ new.isMap
    /\ Has(new.def, "headers") => ~Has(new.def["headers"].m, "Authorization")
    /\ DOMAIN old.def["headers"].m = {"Authorization"} => ~Has(new.def, "headers")

OthersUntouched ==
    \A n \in DOMAIN Before \ {GithubName} : Has(After, n) /\ After[n] = Before[n]

\* C11 (as claimed): the github server loses Authorization, loses headers when
\* nothing else was in it, and has bearer_token_env_var equal to the constant;
\* every other server is unchanged
C11_Claim ==
    Transformed("codex") =>
        /\ OthersUntouched
        /\ (Has(Before, GithubName) /\ CarriesAuthorization(Before[GithubName])) =>
              /\ AuthorizationGone(Before[GithubName], After[GithubName])
              /\ Has(After[GithubName].def, "bearer_token_env_var")
              /\ After[GithubName].def["bearer_token_env_var"] = Str(CodexTokenEnvVar)

\* C11 (amended): as claimed, but a bearer_token_env_var the server already
\* had is kept with its value; the other headers and attributes are kept too
C11_Relocation ==
    Transformed("codex") =>
        /\ OthersUntouched
        /\ DOMAIN After = DOMAIN Before
        /\ (Has(Before, GithubName) /\ CarriesAuthorization(Before[GithubName])) =>
              LET old == Before[GithubName].def
                  new == After[GithubName].def
              IN  /\ AuthorizationGone(Before[GithubName], After[GithubName])
                  /\ Has(new, "bearer_token_env_var")
                  /\ new["bearer_token_env_var"] =
                        IF Has(old, "bearer_token_env_var")
                        THEN old["bearer_token_env_var"]
                        ELSE Str(CodexTokenEnvVar)
                  /\ DOMAIN old["headers"].m # {"Authorization"} =>
                        /\ Has(new, "headers")
                        /\ new["headers"] = Obj(Delete(old["headers"].m, "Authorization"))
                  /\ \A a \in DOMAIN old \ {"headers", "bearer_token_env_var"} :
                        Has(new, a) /\ new[a] = old[a]
                  /\ DOMAIN new \subseteq DOMAIN old \cup {"bearer_token_env_var"}

\* C11 witness: github with Authorization as its only header and no
\* bearer_token_env_var, next to another server with the same headers
C11_Witness ==
    /\ Transformed("codex")
    /\ DOMAIN Before = {GithubName, W("a")}
    /\ CarriesAuthorization(Before[GithubName])
    /\ DOMAIN Before[GithubName].def["headers"].m = {"Authorization"}
    /\ ~Has(Before[GithubName].def, "bearer_token_env_var")
    /\ Before[W("a")] = Before[GithubName]
    /\ ~Has(After[GithubName].def, "headers")
    /\ After[GithubName].def["bearer_token_env_var"] = Str(CodexTokenEnvVar)
    /\ After[W("a")] = Before[W("a")]

\* no github server, or a github server without Authorization under headers
NothingToRelocate ==
    ~Has(Before, GithubName) \/ ~CarriesAuthorization(Before[GithubName])

\* a github server with bearer_token_env_var and an empty headers mapping
EmptyHeadersBesideToken ==
    /\ Has(Before, GithubName)
    /\ Before[GithubName].isMap
    /\ Has(Before[GithubName].def, "bearer_token_env_var")
    /\ Has(Before[GithubName].def, "headers")
    /\ Before[GithubName].def["headers"] = Obj(NoMap)

\* C12 (as claimed): with nothing to relocate the model is left as it was
C12_Claim ==
    (Transformed("codex") /\ NothingToRelocate) => After = Before

\* C12 (amended): with nothing to relocate the model is left as it was, except
\* that an empty headers mapping beside a bearer_token_env_var is removed
C12_NoOp ==
    (Transformed("codex") /\ NothingToRelocate) =>
        After = IF EmptyHeadersBesideToken
                THEN Put(Before, GithubName,
                         MapEntry(Delete(Before[GithubName].def, "headers")))
                ELSE Before

\* C12 witness: a github server with headers that hold no Authorization and
\* no bearer_token_env_var went through the transform unchanged
C12_Witness ==
    /\ Transformed("codex")
    /\ Has(Before, GithubName)
    /\ Before[GithubName].isMap
    /\ Has(Before[GithubName].def, "headers")
    /\ Before[GithubName].def["headers"].k = "map"
    /\ DOMAIN Before[GithubName].def["headers"].m = {"X-Other"}
    /\ ~Has(Before[GithubName].def, "bearer_token_env_var")
    /\ After = Before

GeminiRejected == {"autoApprove", "disabled", "gallery", "type"}

\* C13: after the Gemini transform no mapping-valued server has autoApprove,
\* disabled, gallery or type, every other attribute is there with its value,
\* and nothing else changed; the transform returns no error
C13_Stripping ==
    Transformed("gemini") =>
        /\ ~terr.isErr
        /\ DOMAIN After = DOMAIN Before
        /\ \A n \in DOMAIN Before :
              IF Before[n].isMap
              THEN /\ After[n].isMap
                   /\ DOMAIN After[n].def = DOMAIN Before[n].def \ GeminiRejected
                   /\ \A a \in DOMAIN After[n].def : After[n].def[a] = Before[n].def[a]
              ELSE After[n] = Before[n]

\* C13 witness: a server that had all four attributes and others came out
\* with the others only
C13_Witness ==
    /\ Transformed("gemini")
    /\ \E n \in DOMAIN Before :
        /\ Before[n].isMap
        /\ GeminiRejected \subseteq DOMAIN Before[n].def
        /\ DOMAIN After[n].def = {"command", "headers"}

\* the servers whose type is the string streamable-http, as written or as read
\* after trimming white space and ignoring letter case
IsStreamable(entry) ==
    /\ entry.isMap
    /\ Has(entry.def, "type")
    /\ entry.def["type"] = Str(W("streamable-http"))
ReadsStreamable(entry) ==
    /\ entry.isMap
    /\ Has(entry.def, "type")
    /\ entry.def["type"].k = "str"
    /\ ToLower(TrimSpace(entry.def["type"].s)) = W("streamable-http")

\* C14 (as claimed): only the type of servers whose type is streamable-http
\* changes, to http
C14_Claim ==
    Transformed("claudecode") =>
        /\ ~terr.isErr
        /\ DOMAIN After = DOMAIN Before
        /\ \A n \in DOMAIN Before :
              After[n] = IF IsStreamable(Before[n])
                         THEN MapEntry(Put(Before[n].def, "type", Str(W("http"))))
                         ELSE Before[n]

\* C14 (amended): only the type of servers whose type reads streamable-http,
\* white space trimmed and letter case ignored, changes, to http
C14_TransportOnly ==
    Transformed("claudecode") =>
        /\ ~terr.isErr
        /\ DOMAIN After = DOMAIN Before
        /\ \A n \in DOMAIN Before :
              IF ReadsStreamable(Before[n])
              THEN /\ After[n].isMap
                   /\ DOMAIN After[n].def = DOMAIN Before[n].def
                   /\ After[n].def["type"] = Str(W("http"))
                   /\ \A a \in DOMAIN Before[n].def \ {"type"} :
                         After[n].def[a] = Before[n].def[a]
              ELSE After[n] = Before[n]

\* C14 witness: one server renamed from a type written in another case, one
\* server with type stdio left alone
C14_Witness ==
    /\ Transformed("claudecode")
    /\ DOMAIN Before = {GithubName, W("a")}
    /\ Before[GithubName].isMap /\ Before[W("a")].isMap
    /\ Has(Before[GithubName].def, "type")
    /\ Before[GithubName].def["type"] = Str(<<SP, "Streamable-HTTP">>)
    /\ After[GithubName].def["type"] = Str(W("http"))
    /\ Has(Before[W("a")].def, "type")
    /\ Before[W("a")].def["type"] = Str(W("stdio"))
    /\ After[W("a")] = Before[W("a")]

-----------------------------------------------------------------------------
(* Sync from codex to codex: the payload is a rendering of formatToTOML,   *)
(* parsed by parseServersFromTOML and rendered again                       *)

RoundTripCommands == {Str(W("npx")), Str(<<>>), Str(<<"my", SP, "tool">>)}
RoundTripArgs ==
    {Arr(<<>>), Arr(<<W("x")>>), Arr(<<W("-y"), <<"a", ",", "b">>>>),
     Strs(<<W("x")>>), NilStrs}

\* definitions of strings, booleans and sequences of strings
RoundTripDefs ==
    { [a \in (IF hasCommand THEN {"command"} ELSE {})
             \cup (IF hasArgs THEN {"args"} ELSE {})
             \cup (IF hasDisabled THEN {"disabled"} ELSE {}) |->
          CASE a = "command" -> command
            [] a = "args" -> args
            [] OTHER -> Bool(disabled)]
      : command \in RoundTripCommands, hasCommand \in BOOLEAN,
        args \in RoundTripArgs, hasArgs \in BOOLEAN,
        disabled \in BOOLEAN, hasDisabled \in BOOLEAN }

RoundTripModels ==
    ModelsOver({W("a"), W("b")}, {MapEntry(d) : d \in RoundTripDefs})

\* New("codex", ["codex"]); the template's payload is the rendering of a model
InitRoundTrip ==
    /\ pc = "start"
    /\ tmpl \in {[name |-> W("t"), payload |-> Payload(formatToTOML(m), FALSE, <<>>)]
                    : m \in RoundTripModels}
    /\ source = W("codex")
    /\ agents = <<W("codex")>>
    /\ idx = 1
    /\ heap = <<>>
    /\ serversRef = 0
    /\ agentRef = 0
    /\ servers0 = <<>>
    /\ todo = {}
    /\ terr = NoErr
    /\ result = <<>>
    /\ files = <<>>
    /\ ret = NoReturn

NextRoundTrip ==
    \/ SyncStart
    \/ Copy
    \/ TransformOther
    \/ Format
    \/ Return

SpecRoundTrip == InitRoundTrip /\ [][NextRoundTrip]_vars

-----------------------------------------------------------------------------
(* Claims about the section-text round trip (specification SpecRoundTrip)  *)

\* the first rendering, the model parseServersFromTOML made of it, and the
\* rendering of that model
FirstRendering == tmpl.payload.raw
Reparsed == serversRef # 0
SecondRendering == formatToTOML(servers0)

\* C15 (as claimed): the rendering of the model parsed from a rendering is
\* that rendering
C15_Claim ==
    Reparsed => SecondRendering = FirstRendering

-----------------------------------------------------------------------------
(* Claims about nested mappings and unreadable files (specification Spec)  *)

\* the model rendered for a destination
RenderedModel(a) == TransformedAlone(a, jsonRoundTrip(servers0))

\* C16 (as claimed): in section text a mapping-valued attribute is no
\* `key = value` line; it has a section of its own, [mcp_servers.<name>.<key>]
C16_Claim ==
    \A a \in DOMAIN result :
        (GetAgentConfig(a).ok /\ GetAgentConfig(a).Format = "toml") =>
            LET lines == SplitLines(result[a].text) IN
            \A n \in DOMAIN RenderedModel(a) :
                RenderedModel(a)[n].isMap =>
                    \A key \in DOMAIN RenderedModel(a)[n].def :
                        RenderedModel(a)[n].def[key].k = "map" =>
                            /\ \E i \in 1..Len(lines) :
                                  lines[i] = MCPPrefix \o n \o <<".", key, "]">>
                            /\ \A i \in 1..Len(lines) :
                                  ~HasPrefix(lines[i], <<key, SP, "=">>)

\* a destination of the catalog whose file is missing or unreadable, or does
\* not parse
NothingToMerge(a) ==
    /\ GetAgentConfig(a).ok
    /\ ~files[a].exists \/ (GetAgentConfig(a).Format = "json" /\ ~files[a].json)

\* C19: with nothing to merge, a JSON destination gets the document with the
\* root key alone, holding the model; a section-text destination gets the
\* fresh sections and a final newline (nothing when there is no section);
\* formatConfig has no error to return, so a result is recorded either way
C19_NothingToMerge ==
    \A a \in DOMAIN result :
        NothingToMerge(a) =>
            IF GetAgentConfig(a).Format = "toml"
            THEN result[a] =
                    IF formatToTOML(RenderedModel(a)) = <<>> THEN EmptyString
                    ELSE TextContent(formatToTOML(RenderedModel(a)) \o <<NL>>)
            ELSE /\ result[a].json
                 /\ DOMAIN result[a].doc = {GetAgentConfig(a).NodeName}
                 /\ result[a].doc[GetAgentConfig(a).NodeName] = ObjVal(RenderedModel(a))

\* C19 witness: Sync returned results for a JSON destination whose file does
\* not parse and for codex with no file
C19_Witness ==
    /\ ret.done /\ ~ret.failed
    /\ DOMAIN result = {W("vscode"), W("codex")}
    /\ files[W("vscode")] = TextFile(W("{oops"))
    /\ ~files[W("codex")].exists
    /\ result[W("vscode")].json
    /\ DOMAIN result[W("vscode")].doc = {"servers"}
    /\ HasPrefix(result[W("codex")].text, MCPPrefix)

-----------------------------------------------------------------------------
(* More claims about the Codex merge (specification SpecCodex)             *)

Output == result[Codex].text
OutputLines == SplitLines(Output)
FreshSections == formatToTOML(servers0)

EndsWithOneNewline(t) ==
    /\ Len(t) >= 1
    /\ t[Len(t)] = NL
    /\ Len(t) >= 2 => t[Len(t) - 1] # NL

\* no unmanaged line is kept and no server is a mapping
NothingToWrite ==
    /\ KeptLines(ExistingText) = <<>>
    /\ \A n \in DOMAIN servers0 : ~servers0[n].isMap

\* C17 (as claimed): the output ends with exactly one newline
C17_Claim ==
    Merged => EndsWithOneNewline(Output)

\* C17 (amended): the output is empty when there is nothing to write, and
\* otherwise ends with exactly one newline, after some text
C17_OneNewline ==
    Merged => IF NothingToWrite THEN Output = <<>>
              ELSE EndsWithOneNewline(Output) /\ Len(Output) >= 2

\* C17 witness: an existing file that ends with blank lines, merged with a
\* model that renders nothing
C17_Witness ==
    /\ Merged
    /\ Len(ExistingText) >= 3
    /\ ExistingText[Len(ExistingText)] = NL
    /\ ExistingText[Len(ExistingText) - 1] = NL
    /\ FreshSections = <<>>
    /\ EndsWithOneNewline(Output)

\* C18: the output is the kept unmanaged lines, then (after one blank line
\* when both are there) the fresh sections and nothing else, so no line of an
\* old managed section is left and every managed header comes after the kept
\* lines
C18_ManagedReplaced ==
    Merged =>
        LET kept == KeptLines(ExistingText)
            fresh == IF FreshSections = <<>> THEN <<>> ELSE SplitLines(FreshSections)
            gap == IF kept # <<>> /\ fresh # <<>> THEN <<(<<>>)>> ELSE <<>>
        IN  /\ \A i \in 1..Len(OutputLines) :
                  OpensManaged(OutputLines[i]) => i > Len(kept)
            /\ OutputLines = IF NothingToWrite THEN <<(<<>>)>>
                             ELSE kept \o gap \o fresh \o <<(<<>>)>>

\* C18 witness: a managed section with a line of its own, then an unmanaged
\* section, merged with a model that renders a section; the old line is gone
C18_Witness ==
    /\ Merged
    /\ LET ls == SplitLines(ExistingText) IN
        /\ Len(ls) = 3
        /\ OpensManaged(ls[1])
        /\ ls[2] # <<>> /\ ~OpensSection(ls[2])
        /\ OpensSection(ls[3]) /\ ~OpensManaged(ls[3])
        /\ \A i \in 1..Len(OutputLines) :
              OutputLines[i] # ls[1] /\ OutputLines[i] # ls[2]
        /\ OutputLines[1] = ls[3]
    /\ HasPrefix(FreshSections, MCPPrefix)

\* a value that is an empty sequence
IsEmptySequence(v) == v.k \in {"seq", "strs", "nilstrs"} /\ v.q = <<>>

\* line j of the output belongs to the section of server n opened at line i
InSectionOf(n, i, j) ==
    /\ i < j
    /\ OutputLines[i] = MCPPrefix \o n \o <<"]">>
    /\ \A h \in (i + 1)..j : ~OpensSection(OutputLines[h])

-----------------------------------------------------------------------------
(* GetAgentConfig and GetTransformer called with names as a caller writes  *)
(* them: Sync on a Syncer whose SourceAgent and Agents were set directly   *)

CatalogWords ==
    {W("copilot"), W("Copilot"), W("vscode"), W("VSCode"), W("codex"), W("Codex"),
     W("claudecode"), W("ClaudeCode"), W("gemini"), W("Gemini"), W("kilocode"),
     W("unknown"), W("claude")}

\* the words, some of them padded with white space, and two blank names
CatalogNames ==
    CatalogWords
        \cup {<<SP>> \o w \o <<NL>> : w \in {W("Copilot"), W("vscode"), W("Codex"),
                                             W("claudecode"), W("Gemini"), W("unknown")}}
        \cup {<<>>, <<SP>>}

CatalogGithub ==
    [n \in {GithubName} |->
        MapEntry([a \in {"type", "url", "headers"} |->
            CASE a = "type" -> Str(W("streamable-http"))
              [] a = "url" -> Str(W("https://example.test"))
              [] OTHER -> Obj([h \in {"Authorization"} |-> Str(W("Bearer"))])])]

CatalogLocal ==
    [n \in {W("a")} |-> MapEntry([a \in {"command"} |-> Str(W("npx"))])]

CatalogOld ==
    [n \in {W("old")} |-> MapEntry([a \in {"command"} |-> Str(W("node"))])]

\* a JSON template with one model under each root key, and a TOML template
CatalogPayloads ==
    {Payload(W("{json}"), TRUE,
             [key \in {"mcpServers", "servers"} |->
                 IF key = "mcpServers" THEN ObjVal(CatalogGithub)
                 ELSE ObjVal(CatalogLocal)]),
     Payload(formatToTOML(CatalogOld), FALSE, <<>>)}

InitCatalog ==
    /\ pc = "start"
    /\ tmpl \in [name : {W("t")}, payload : CatalogPayloads]
    /\ source \in CatalogNames
    /\ agents \in {<<a>> : a \in CatalogNames}
    /\ idx = 1
    /\ heap = <<>>
    /\ serversRef = 0
    /\ agentRef = 0
    /\ servers0 = <<>>
    /\ todo = {}
    /\ terr = NoErr
    /\ result = <<>>
    /\ files = <<>>
    /\ ret = NoReturn

SpecCatalog == InitCatalog /\ [][Next]_vars

\* the fixed table of the catalog, by normalized name
CatalogTable ==
    [n \in {W("copilot"), W("vscode"), W("codex"), W("claudecode"), W("gemini")} |->
        CASE n = W("vscode") -> [NodeName |-> "servers", Format |-> "json"]
          [] n = W("codex") -> [NodeName |-> "", Format |-> "toml"]
          [] OTHER -> [NodeName |-> "mcpServers", Format |-> "json"]]

Listed(name) == normalizeAgent(name) \in DOMAIN CatalogTable
Entry(name) == CatalogTable[normalizeAgent(name)]

\* what Sync does with its source when the lookup answers as the table says
SourceLookedUp ==
    IF ~Listed(source)
    THEN ret.failed /\ ret.reason = "source agent not supported" /\ serversRef = 0
    ELSE IF Entry(source).Format = "toml"
    THEN servers0 = parseServersFromTOML(tmpl.payload.raw)
    ELSE IF tmpl.payload.valid
    THEN servers0 = parseServersFromJSON(Entry(source).NodeName, tmpl.payload.data)
    ELSE ret.failed /\ ret.reason = "failed to parse JSON"

\* what formatConfig records for a destination when the lookup answers as the
\* table says
DestinationLookedUp(a) ==
    IF ~Listed(a) THEN result[a] = EmptyString
    ELSE IF Entry(a).Format = "toml"
    THEN result[a] = formatCodexConfig(files[a], heap[agentRef])
    ELSE result[a] = formatToJSON(Entry(a).NodeName, heap[agentRef])

Copied == jsonRoundTrip(servers0)

\* the tool-manifest transform applied to every mapping-valued server
ToolManifest(servers) ==
    [n \in DOMAIN servers |->
        IF servers[n].isMap THEN MapEntry(transformServer(n, servers[n].def).server)
        ELSE servers[n]]

\* the transform the claim assigns to a normalized name
SelectedFor(name, servers) ==
    CASE name = W("copilot") -> ToolManifest(servers)
      [] name = W("codex") -> CodexTransform(servers)
      [] name = W("claudecode") -> ClaudeTransform(servers)
      [] name = W("gemini") -> GeminiTransform(servers)
      [] OTHER -> servers

-----------------------------------------------------------------------------
(* The run of cmd/agent-align: the destination list of the configuration,  *)
(* Sync over it, and the writes of main. In this specification `source` is *)
(* targets.agents as the YAML file gives it, `agents` is the list after    *)
(* config.Load, `servers0` the servers main loaded, `result` is            *)
(* syncResult.Agents, `tmpl` the other targets of the configuration, `idx` *)
(* the position of the loop at hand, `todo` the lines main has printed,    *)
(* `terr` is applyErrors, `files` the disk and `ret` the exit of main.     *)

\* os.UserHomeDir (the home directory is taken to exist)
HomeDir == <<"/", "home">>

\* expandUserPath
expandUserPath(value) ==
    LET v == TrimSpace(value) IN
    IF v = <<>> \/ v[1] # "~" THEN v
    ELSE IF Len(v) = 1 THEN HomeDir
    ELSE IF v[2] \in {"/", "\\"}
    THEN LET remainder == TrimLeftSet(Tail(v), {"/", "\\"}) IN
         IF remainder = <<>> THEN HomeDir ELSE HomeDir \o <<"/">> \o remainder
    ELSE v

Target(name, path, disabled) ==
    [Name |-> name, Path |-> path, DisabledMcpServers |-> disabled]

\* the disabled list of normalizeTargets: entries trimmed, empty ones skipped
trimmedDisabled(list) ==
    SelectSeq([i \in 1..Len(list) |-> TrimSpace(list[i])], LAMBDA d : d # <<>>)

\* the path of normalizeTargets: trimmed, then expanded when not empty
trimmedPath(value) ==
    IF TrimSpace(value) = <<>> THEN <<>> ELSE expandUserPath(TrimSpace(value))

RECURSIVE targetsFrom(_, _, _)
targetsFrom(list, seen, out) ==
    IF list = <<>> THEN out
    ELSE LET name == normalizeAgent(Head(list).Name)
             path == trimmedPath(Head(list).Path)
             disabled == trimmedDisabled(Head(list).DisabledMcpServers)
             key == name \o <<"|">> \o path \o <<"|">> \o Join(disabled, <<",">>)
         IN  IF name = <<>> \/ key \in seen
             THEN targetsFrom(Tail(list), seen, out)
             ELSE targetsFrom(Tail(list), seen \cup {key},
                              Append(out, Target(name, path, disabled)))

\* normalizeTargets keeping one target per name
normalizeTargetsByName(list) ==
    LET first(i) == \A j \in 1..(i - 1) :
                        normalizeAgent(list[j].Name) # normalizeAgent(list[i].Name)
        kept == SelectSeq([i \in 1..Len(list) |-> [at |-> i, target |-> list[i]]],
                          LAMBDA e : normalizeAgent(e.target.Name) # <<>> /\ first(e.at))
    IN  [i \in 1..Len(kept) |->
            Target(normalizeAgent(kept[i].target.Name), trimmedPath(kept[i].target.Path),
                   trimmedDisabled(kept[i].target.DisabledMcpServers))]

\* normalizeTargets
normalizeTargets(list) == targetsFrom(list, {}, <<>>)

\* configTargetsToSyncer
configTargetsToSyncer(list) ==
    [i \in 1..Len(list) |-> [Name |-> list[i].Name, PathOverride |-> list[i].Path]]

\* the default path of a catalog entry
DefaultPath(name) == HomeDir \o <<"/", ".">> \o name

\* the destination list Sync works on: one request per name and path, the
\* first of each kept
uniqueTargets(list) ==
    SelectSeq([i \in 1..Len(list) |-> [at |-> i, target |-> list[i]]],
              LAMBDA e : \A j \in 1..(e.at - 1) : list[j] # e.target)

\* the copilot transformer rejects some server of the model
copilotRejects(servers) ==
    \E n \in DOMAIN servers :
        servers[n].isMap /\ transformServer(n, servers[n].def).err.isErr

\* a destination Sync renders: its catalog entry exists and its transform
\* accepts the model
Renders(name, servers) ==
    /\ GetAgentConfig(name).ok
    /\ GetTransformer(name) = "copilot" => ~copilotRejects(servers)

\* the result Sync records for one request
AgentResult(target, servers) ==
    LET copy == jsonRoundTrip(servers)
        transformed ==
            IF GetTransformer(target.Name) = "copilot"
            THEN [n \in DOMAIN copy |->
                     IF copy[n].isMap
                     THEN MapEntry(transformServer(n, copy[n].def).server)
                     ELSE copy[n]]
            ELSE TransformWhole(GetTransformer(target.Name), copy)
    IN  [Config |-> [FilePath |-> IF target.PathOverride # <<>>
                                  THEN target.PathOverride
                                  ELSE DefaultPath(target.Name)],
         Content |-> formatConfig(target.Name, AbsentFile, transformed)]

RECURSIVE recordResults(_, _, _)
\* the loop of Sync over its requests: a request that cannot be rendered is
\* left out, every other one is appended to the results of its name
recordResults(list, servers, out) ==
    IF list = <<>> THEN out
    ELSE LET target == Head(list).target IN
         IF ~Renders(target.Name, servers)
         THEN recordResults(Tail(list), servers, out)
         ELSE recordResults(Tail(list), servers,
                  Put(out, target.Name,
                      Append(IF Has(out, target.Name) THEN out[target.Name] ELSE <<>>,
                             AgentResult(target, servers))))

\* agent names in the order of sort.Strings
SortedAgents ==
    <<W("claudecode"), W("codex"), W("copilot"), W("gemini"), W("vscode")>>

RECURSIVE outputsOf(_, _)
outputsOf(names, res) ==
    IF names = <<>> THEN <<>>
    ELSE [i \in 1..Len(res[Head(names)]) |->
             [agent |-> Head(names), output |-> res[Head(names)][i]]]
         \o outputsOf(Tail(names), res)

\* the outputs in the order main visits them: names sorted, then each name's
\* outputs in the order Sync recorded them
Outputs == outputsOf(SortStrings(DOMAIN result, SortedAgents), result)

\* targets.agents as written in the YAML file
RawTargets ==
    {Target(W("copilot"), <<>>, <<>>),
     Target(<<SP, "Copilot">>, <<SP>>, <<>>),
     Target(W("copilot"), <<"/", "p">>, <<>>),
     Target(W("copilot"), <<"/", "p">>, <<W("a")>>),
     Target(W("copilot"), <<SP, "/", "p">>, <<<<SP, "a">>, <<>>>>),
     Target(W("copilot"), <<"~", "/", "p">>, <<>>),
     Target(W("copilot"), <<"/", "home", "/", "p">>, <<>>),
     Target(W("codex"), <<"/", "p">>, <<>>),
     Target(<<SP>>, <<"/", "p">>, <<>>),
     Target(W("bogus"), <<>>, <<>>)}

NoOtherTargets == [additional |-> <<>>, files |-> <<>>, directories |-> <<>>]
OtherTargets ==
    [additional |-> << <<"/", "extra.json">> >>, files |-> << <<"/", "src">> >>,
     directories |-> << <<"/", "dir">> >>]

NoExit == [done |-> FALSE, status |-> 0]
Exit(status) == [done |-> TRUE, status |-> status]

InitTargets ==
    /\ pc = "config"
    /\ tmpl \in {NoOtherTargets, OtherTargets}
    /\ source \in SeqsUpTo(RawTargets, MaxAgents)
    /\ agents = <<>>
    /\ idx = 1
    /\ heap = <<>>
    /\ serversRef = 0
    /\ agentRef = 0
    /\ servers0 \in {NoMap, CatalogLocal, CatalogGithub}
    /\ todo = <<>>
    /\ terr = <<>>
    /\ result = <<>>
    /\ files = <<>>
    /\ ret = NoExit

\* config.Load: cfg.MCP.Targets = normalizeTargets(cfg.MCP.Targets)
LoadConfig ==
    /\ pc = "config"
    /\ agents' = normalizeTargets(source)
    /\ pc' = "sync"
    /\ UNCHANGED <<tmpl, source, idx, heap, serversRef, agentRef, servers0, todo,
                   terr, result, files, ret>>

\* main up to the results: log.Fatal without any target, then
\* syncer.New(targetAgents) and s.Sync(servers), log.Fatalf when Sync fails
SyncTargets ==
    /\ pc = "sync"
    /\ IF (agents = <<>> /\ tmpl = NoOtherTargets) \/ servers0 = NoMap
       THEN /\ ret' = Exit(1)
            /\ pc' = "done"
            /\ result' = result
       ELSE /\ result' = recordResults(uniqueTargets(configTargetsToSyncer(agents)),
                                       servers0, <<>>)
            /\ pc' = "apply"
            /\ ret' = ret
    /\ UNCHANGED <<tmpl, source, agents, idx, heap, serversRef, agentRef, servers0,
                   todo, terr, files>>

Line(kind, agent, path) == [kind |-> kind, agent |-> agent, path |-> path]

\* one pass of the loops over agentNames and outputs, stopping at a failure
WriteOutputStopping ==
    /\ pc = "apply"
    /\ idx <= Len(Outputs)
    /\ LET o == Outputs[idx] IN
       \E ok \in BOOLEAN :
          IF ok
          THEN /\ files' = Put(files, o.output.Config.FilePath, o.output.Content)
               /\ todo' = Append(todo, Line("updated", o.agent, o.output.Config.FilePath))
               /\ terr' = terr
               /\ idx' = idx + 1
          ELSE /\ todo' = Append(todo, Line("error", o.agent, o.output.Config.FilePath))
               /\ terr' = Append(terr, Line("error", o.agent, o.output.Config.FilePath))
               /\ files' = files
               /\ idx' = Len(Outputs) + 1
    /\ UNCHANGED <<pc, tmpl, source, agents, heap, serversRef, agentRef, servers0,
                   result, ret>>

\* one pass of the loops over agentNames and outputs: writeAgentConfig, which
\* the file system lets succeed or not
WriteOutput ==
    /\ pc = "apply"
    /\ idx <= Len(Outputs)
    /\ LET o == Outputs[idx] IN
       \E ok \in BOOLEAN :
          IF ok
          THEN /\ files' = Put(files, o.output.Config.FilePath, o.output.Content)
               /\ todo' = Append(todo, Line("updated", o.agent, o.output.Config.FilePath))
               /\ terr' = terr
          ELSE /\ todo' = Append(todo, Line("error", o.agent, o.output.Config.FilePath))
               /\ terr' = Append(terr, Line("error", o.agent, o.output.Config.FilePath))
               /\ files' = files
    /\ idx' = idx + 1
    /\ UNCHANGED <<pc, tmpl, source, agents, heap, serversRef, agentRef, servers0,
                   result, ret>>

\* the loop over the outputs is over
OutputsWritten ==
    /\ pc = "apply"
    /\ idx > Len(Outputs)
    /\ pc' = "others"
    /\ idx' = 1
    /\ UNCHANGED <<tmpl, source, agents, heap, serversRef, agentRef, servers0, todo,
                   terr, result, files, ret>>

\* the other targets in the order main applies them
Others ==
    [i \in 1..Len(tmpl.additional) |-> [kind |-> "additional", path |-> tmpl.additional[i]]]
        \o [i \in 1..Len(tmpl.files) |-> [kind |-> "file", path |-> tmpl.files[i]]]
        \o [i \in 1..Len(tmpl.directories) |-> [kind |-> "directory", path |-> tmpl.directories[i]]]

\* one pass of the loops over additionalTargets, extraTargets.Files and
\* extraTargets.Directories: preparing or writing succeeds or not
ApplyOther ==
    /\ pc = "others"
    /\ idx <= Len(Others)
    /\ LET o == Others[idx] IN
       \E ok \in BOOLEAN :
          IF ok
          THEN /\ todo' = Append(todo, Line("updated", o.kind, o.path))
               /\ terr' = terr
          ELSE /\ todo' = Append(todo, Line("error", o.kind, o.path))
               /\ terr' = Append(terr, Line("error", o.kind, o.path))
    /\ idx' = idx + 1
    /\ UNCHANGED <<pc, tmpl, source, agents, heap, serversRef, agentRef, servers0,
                   result, files, ret>>

\* the end of main: os.Exit(1) when applyErrors is not empty
ExitMain ==
    /\ pc = "others"
    /\ idx > Len(Others)
    /\ ret' = Exit(IF Len(terr) > 0 THEN 1 ELSE 0)
    /\ pc' = "done"
    /\ UNCHANGED <<tmpl, source, agents, idx, heap, serversRef, agentRef, servers0,
                   todo, terr, result, files>>

NextTargets ==
    \/ LoadConfig
    \/ SyncTargets
    \/ WriteOutput
    \/ OutputsWritten
    \/ ApplyOther
    \/ ExitMain

SpecTargets == InitTargets /\ [][NextTargets]_vars

\* the name and path of the i-th request as written, normalized
RequestAt(i) ==
    [Name |-> normalizeAgent(source[i].Name), PathOverride |-> trimmedPath(source[i].Path)]

\* the first request with its name and path, its name not blank
FirstRequest(i) ==
    /\ RequestAt(i).Name # <<>>
    /\ \A j \in 1..(i - 1) : RequestAt(j) # RequestAt(i)

\* the requests as written, normalized, without blank names and repetitions
DistinctRequests ==
    LET at == SelectSeq([i \in 1..Len(source) |-> i], FirstRequest)
    IN  [k \in 1..Len(at) |-> RequestAt(at[k])]

Synced == pc \in {"apply", "others"}

\* the paths of the distinct requests for a name that Sync renders, in order
PathsRequested(name) ==
    LET mine == SelectSeq(DistinctRequests,
                          LAMBDA r : r.Name = name /\ Renders(name, servers0))
    IN  [k \in 1..Len(mine) |->
            IF mine[k].PathOverride # <<>> THEN mine[k].PathOverride
            ELSE DefaultPath(name)]

PathsRecorded(name) ==
    [k \in 1..Len(result[name]) |-> result[name][k].Config.FilePath]

Applying ==
    \/ pc \in {"apply", "others"}
    \/ pc = "done" /\ servers0 # NoMap /\ (agents # <<>> \/ tmpl # NoOtherTargets)

\* C25: a failed write does not stop the batch: every output is attempted in
\* turn, each failure is reported with its agent and path, and main exits with
\* a failure status exactly when some write failed
C25_BatchGoesOn ==
    /\ pc \in {"others", "done"} /\ Applying =>
          /\ Len(todo) >= Len(Outputs)
          /\ \A i \in 1..Len(Outputs) :
                /\ todo[i].agent = Outputs[i].agent
                /\ todo[i].path = Outputs[i].output.Config.FilePath
    /\ terr = SelectSeq(todo, LAMBDA l : l.kind = "error")
    /\ pc = "done" /\ Applying =>
          /\ Len(todo) = Len(Outputs) + Len(Others)
          /\ ret.status = 1 <=> \E i \in 1..Len(todo) : todo[i].kind = "error"

\* C25 witness: a write failed, a later one was made all the same, and main
\* exited with status 1
C25_Witness ==
    /\ pc = "done"
    /\ ret.status = 1
    /\ \E i, j \in 1..Len(Outputs) :
          /\ i < j
          /\ todo[i].kind = "error"
          /\ todo[j].kind = "updated"
          /\ Has(files, todo[j].path)

-----------------------------------------------------------------------------
(* Claims on Spec: the order of the steps of Sync                          *)

\* the copies made so far are one per destination begun, and the copy at hand
\* is the one made for the destination at hand
OneCopyEach ==
    /\ pc = "loop" => Len(heap) = idx
    /\ pc \in {"transform", "format"} => Len(heap) = idx + 1 /\ agentRef = idx + 1

\* a step that copies does nothing else: it starts the destination at hand,
\* which has no content yet, on a copy of its own
CopyStep ==
    agentRef' # agentRef =>
        /\ pc = "loop" /\ pc' = "transform"
        /\ idx' = idx /\ result' = result
        /\ ~Has(result, Agent)
        /\ agentRef' = Len(heap) + 1
        /\ heap' = Append(heap, jsonRoundTrip(heap[serversRef]))

\* a step that changes a model changes the copy at hand, during the transform
TransformStep ==
    \A r \in 1..Len(heap) :
        heap'[r] # heap[r] =>
            /\ pc = "transform" /\ pc' \in {"transform", "format"}
            /\ r = agentRef /\ r # serversRef
            /\ idx' = idx /\ result' = result

\* a step that records content records the rendering of the copy at hand
\* against the destination's file, for the destination at hand alone, after
\* its transform, and only then is the next destination taken
RenderStep ==
    /\ result' # result =>
          /\ pc = "format" /\ pc' = "loop"
          /\ heap' = heap
          /\ result' = Put(result, Agent, formatConfig(Agent, files'[Agent], heap[agentRef]))
    /\ idx' # idx => idx' = idx + 1 /\ Has(result', Agent) /\ ~Has(result, Agent)
    /\ pc' = "format" /\ pc # "format" => pc = "transform"
    /\ pc = "format" /\ pc' # "format" => result' # result \/ Has(result', Agent)

\* C26: Sync takes its destinations one at a time: a copy, then the
\* transform on that copy alone, then the rendering and merge of that copy,
\* each once, and the next destination is taken only when the content of the
\* current one is recorded
C26_OneAtATime ==
    [][OneCopyEach /\ CopyStep /\ TransformStep /\ RenderStep]_vars

\* C26 witness: Sync returned after two destinations, each rendered from its
\* own copy, the two copies transformed differently
C26_Witness ==
    /\ pc = "done"
    /\ ~ret.failed
    /\ Len(agents) = 2
    /\ Len(heap) = 3
    /\ heap[2] # heap[3]
    /\ heap[2] # heap[1]
    /\ \A i \in 1..2 : Has(ret.agents, agents[i])

-----------------------------------------------------------------------------
(* formatCodexConfig run again on the file its own output was written to   *)

\* the first run is over: Sync returns its result, the caller writes the
\* content to the destination (writeAgentConfig), and the program is run again
\* with the same model
WriteAndRerun ==
    /\ pc = "loop"
    /\ ~ret.done
    /\ Has(result, agents[1])
    /\ idx' = 1
    /\ ret' = ReturnResult(result, servers0)
    /\ files' = [a \in DOMAIN result |-> TextFile(result[a].text)]
    /\ result' = <<>>
    /\ pc' = "format"
    /\ UNCHANGED <<tmpl, source, agents, heap, serversRef, agentRef, servers0, todo, terr>>

NextRerun ==
    \/ Format
    \/ WriteAndRerun

SpecRerun == InitCodex /\ [][NextRerun]_vars

\* the second run has rendered
Rerun == ret.done /\ Has(result, W("codex"))

\* C27 (as claimed): merging again into the file the first output was written
\* to, with the same model, gives the first output byte for byte
C27_Claim ==
    Rerun => result[W("codex")] = ret.agents[W("codex")]

-----------------------------------------------------------------------------
(* Claims on Spec: servers that are not mappings                           *)

\* the transformers that range over the servers
Iterating == {"copilot", "claude", "gemini"}

\* what an iterating transformer makes of one mapping-valued server
ServerTransformed(kind, name, entry) ==
    CASE kind = "copilot" -> MapEntry(transformServer(name, entry.def).server)
      [] kind = "claude" -> claudeServer(entry)
      [] OTHER -> geminiServer(entry)

\* C28: the tool-manifest, transport-only and field-stripping transforms leave
\* a server that is not a mapping as it was, raise no error because of it, and
\* still transform every mapping-valued server of the model
C28_SkipsNonMappings ==
    /\ (pc \in {"transform", "format"} /\ GetTransformer(Agent) \in Iterating) =>
          \A n \in DOMAIN Copied :
              ~Copied[n].isMap => Has(heap[agentRef], n) /\ heap[agentRef][n] = Copied[n]
    /\ (pc = "format" /\ GetTransformer(Agent) \in Iterating) =>
          \A n \in DOMAIN Copied :
              Copied[n].isMap =>
                  heap[agentRef][n] = ServerTransformed(GetTransformer(Agent), n, Copied[n])
    /\ terr.isErr => Has(Copied, terr.server) /\ Copied[terr.server].isMap

\* C28 witness: the field-stripping transform returned on a model with a
\* server that is not a mapping and a mapping-valued one it changed
C28_Witness ==
    /\ pc = "format"
    /\ GetTransformer(Agent) = "gemini"
    /\ \E n, m \in DOMAIN Copied :
          /\ ~Copied[n].isMap
          /\ Copied[m].isMap
          /\ heap[agentRef][m] # Copied[m]
          /\ heap[agentRef][n] = Copied[n]

-----------------------------------------------------------------------------
(* Claims on Spec: the text formatToTOML renders                           *)

\* the codex destination has just been rendered from the copy at hand
CodexRendered == pc = "loop" /\ idx > 1 /\ agents[idx - 1] = W("codex")

TomlModel == heap[agentRef]
TomlText == formatToTOML(TomlModel)
TomlLines == SplitLines(TomlText)

\* the mapping-valued servers of the model, in ascending order
MappingNames ==
    SortStrings({n \in DOMAIN TomlModel : TomlModel[n].isMap}, SortedNames)

\* where the sections of the text open
HeaderLines ==
    SelectSeq([i \in 1..Len(TomlLines) |-> i], LAMBDA i : OpensManaged(TomlLines[i]))

\* the last line of the k-th section
SectionEnd(k) ==
    IF k < Len(HeaderLines) THEN HeaderLines[k + 1] - 2 ELSE Len(TomlLines)

\* the keys of the lines of the k-th section, in the order of the text
SectionKeys(k) ==
    [j \in 1..(SectionEnd(k) - HeaderLines[k]) |-> TomlLines[HeaderLines[k] + j][1]]

\* blank lines stand before the header of every section but the first, one
\* each, and nowhere else
OneBlankBetween ==
    /\ \A i \in 1..Len(TomlLines) :
          TomlLines[i] = <<>> =>
              /\ 1 < i /\ i < Len(TomlLines)
              /\ TomlLines[i - 1] # <<>>
              /\ OpensManaged(TomlLines[i + 1])
    /\ \A k \in 2..Len(HeaderLines) : TomlLines[HeaderLines[k] - 1] = <<>>
    /\ HeaderLines[1] = 1

\* C29: the section text is fixed by the model: one section per
\* mapping-valued server in ascending name order, the keys of a section in
\* ascending order, one blank line between consecutive sections and none
\* after the last; the content recorded without an existing file is that
\* text and a final newline
C29_Deterministic ==
    CodexRendered =>
        /\ IF MappingNames = <<>> THEN TomlText = <<>>
           ELSE /\ OneBlankBetween
                /\ Len(HeaderLines) = Len(MappingNames)
                /\ \A k \in 1..Len(HeaderLines) :
                      /\ TomlLines[HeaderLines[k]] = MCPPrefix \o MappingNames[k] \o <<"]">>
                      /\ SectionKeys(k) =
                             SortStrings(DOMAIN TomlModel[MappingNames[k]].def, SortedKeys)
        /\ files[W("codex")] = AbsentFile =>
              result[W("codex")].text
                  = IF TomlText = <<>> THEN <<>> ELSE TomlText \o <<NL>>

\* C29 witness: two sections rendered, the first with three keys
C29_Witness ==
    /\ CodexRendered
    /\ Len(MappingNames) = 2
    /\ Len(HeaderLines) = 2
    /\ Len(SectionKeys(2)) >= 3
    /\ files[W("codex")] = AbsentFile

-----------------------------------------------------------------------------
(* Claims on SpecTransform: github with a token variable of its own        *)

\* github is a mapping with bearer_token_env_var and an Authorization header
TokenAndAuthorization ==
    /\ Has(Before, GithubName)
    /\ CarriesAuthorization(Before[GithubName])
    /\ Has(Before[GithubName].def, "bearer_token_env_var")

\* C30: on a github server that has bearer_token_env_var and an Authorization
\* header the token relocation removes Authorization, removes headers only
\* when nothing else is in it, and changes nothing else: the variable keeps
\* its value, the other headers stay, every other attribute and server is as
\* it was
C30_OnlyAuthorizationGoes ==
    (Transformed("codex") /\ TokenAndAuthorization) =>
        LET old == Before[GithubName].def
            new == After[GithubName].def
            others == DOMAIN old["headers"].m \ {"Authorization"}
        IN  /\ DOMAIN After = DOMAIN Before
            /\ OthersUntouched
            /\ After[GithubName].isMap
            /\ DOMAIN new = IF others = {} THEN DOMAIN old \ {"headers"} ELSE DOMAIN old
            /\ \A a \in DOMAIN new \ {"headers"} : new[a] = old[a]
            /\ others # {} =>
                  /\ new["headers"].k = "map"
                  /\ DOMAIN new["headers"].m = others
                  /\ \A h \in others : new["headers"].m[h] = old["headers"].m[h]

\* C30 witness: github had its own variable, an Authorization header and
\* another header; Authorization is gone, the other header and the variable
\* are there
C30_Witness ==
    /\ Transformed("codex")
    /\ TokenAndAuthorization
    /\ Has(Before[GithubName].def["headers"].m, "X-Other")
    /\ After # Before
    /\ Has(After[GithubName].def, "headers")
    /\ After[GithubName].def["bearer_token_env_var"] = Str(W("MY_TOKEN"))
    /\ Cardinality(DOMAIN Before) = 2

====
